---- MODULE Spec2Model ----
(***************************************************************************)
(* A model of the arxiv-digest retrieval pipeline (scripts/arxiv_fetch.py): *)
(* identifier normalisation, deduplication and announce-type filtering,    *)
(* the transport layer fetch_url, the chunked date-range fetch and the     *)
(* orchestrator fetch_papers.                                              *)
(*                                                                         *)
(* Text is modelled as a sequence of tokens: one-character strings, plus   *)
(* the atomic tokens "/abs/" and "http://arxiv.org" for the parts of an    *)
(* identifier URI the code splits on.  Each component has its own          *)
(* variables and its own specification; a specification leaves the other   *)
(* components idle.                                                        *)
(***************************************************************************)
EXTENDS Integers, Sequences, FiniteSets, TLC

VARIABLES
    \* identifier normalisation (IdSpec)
    x, y, idPc,
    \* parse + deduplicate (PostSpec)
    source, entries, fetched, papers, postPc,
    \* fetch_papers' include_replacements argument
    include_replacements,
    \* announce-type filter (FilterSpec)
    fpapers, fout, filterPc,
    \* fetch_url (UrlSpec)
    url, retries, cand, attempt, errors, saw_dns_error, urlTrace, urlResult, urlPc,
    \* _build_date_chunks (ChunkSpec)
    date_from, date_to, chunk_days, chunkResult, chunkPc,
    \* fetch_papers and fetch_api_daterange (FetchSpec)
    mode, categories, page, fp_papers, primary,
    total_chunks, cat_i, chunk_i, category_papers, api_papers,
    fpTrace, fpResult, fpPc,
    \* parse_period (ParseSpec)
    period, now, ppResult, ppPc,
    \* a batch of entries through one fetcher
    batchKind, batchPages, batchFeed, batchResult, batchPc,
    \* ArxivListParser fed a tag stream (ListSpec)
    lp_papers, _current, _current_id, _in_title, _in_authors, _in_abstract, _in_subjects, _buffer, listItem, fedEvents,
    \* build_network (NetSpec)
    net_papers, user_name, current_year, network, netPc,
    \* the fuzzy same-person check (PersonSpec)
    name1, name2, sameResult, personPc,
    \* expand_network_second_degree (ExpandSpec)
    exp_first, exp_user, exp_shape, exp_network, top_coauthors, exp_i, second_degree, expTrace, expPc,
    \* pagination loops (PageSpec)
    pgLoop, pg_max_papers, pg_start, pg_total, pgReceived, pgRequests, pgPages, pgPc,
    \* read-state file (ReadSpec)
    read_state, pad_year, rsMarked, rsCall, rsCalls,
    \* restore_storage (RestoreSpec)
    rs_root, rs_members, rs_filter, rsWritten, rsOk, rsPc

idVars     == <<x, y, idPc>>
postVars   == <<source, entries, fetched, papers, postPc>>
optVars    == <<include_replacements>>
filterVars == <<fpapers, fout, filterPc>>
urlVars    == <<url, retries, cand, attempt, errors, saw_dns_error, urlTrace,
               urlResult, urlPc>>

chunkVars  == <<date_from, date_to, chunk_days, chunkResult, chunkPc>>

fetchVars  == <<mode, categories, page, fp_papers, primary,
                total_chunks, cat_i, chunk_i, category_papers, api_papers,
                fpTrace, fpResult, fpPc>>

parseVars == <<period, now, ppResult, ppPc>>

batchVars == <<batchKind, batchPages, batchFeed, batchResult, batchPc>>

listVars == <<lp_papers, _current, _current_id, _in_title, _in_authors, _in_abstract, _in_subjects, _buffer, listItem, fedEvents>>

netVars == <<net_papers, user_name, current_year, network, netPc>>

personVars == <<name1, name2, sameResult, personPc>>

expandVars == <<exp_first, exp_user, exp_shape, exp_network, top_coauthors, exp_i, second_degree, expTrace, expPc>>

pageVars == <<pgLoop, pg_max_papers, pg_start, pg_total, pgReceived, pgRequests, pgPages, pgPc>>

readVars == <<read_state, pad_year, rsMarked, rsCall, rsCalls>>

restoreVars == <<rs_root, rs_members, rs_filter, rsWritten, rsOk, rsPc>>

vars == <<idVars, postVars, optVars, filterVars, urlVars, chunkVars, fetchVars, parseVars, batchVars, listVars, netVars, personVars, expandVars, pageVars, readVars, restoreVars>>

\* What an action of one component leaves alone: every other component.
IdFrame     == UNCHANGED <<postVars, optVars, filterVars, urlVars, chunkVars, fetchVars, parseVars, batchVars, listVars, netVars, personVars, expandVars, pageVars, readVars, restoreVars>>
PostFrame   == UNCHANGED <<idVars, filterVars, urlVars, chunkVars, fetchVars, parseVars, batchVars, listVars, netVars, personVars, expandVars, pageVars, readVars, restoreVars>>
FilterFrame == UNCHANGED <<idVars, postVars, urlVars, chunkVars, fetchVars, parseVars, batchVars, listVars, netVars, personVars, expandVars, pageVars, readVars, restoreVars>>
UrlFrame    == UNCHANGED <<idVars, postVars, optVars, filterVars, chunkVars, fetchVars, parseVars, batchVars, listVars, netVars, personVars, expandVars, pageVars, readVars, restoreVars>>
ChunkFrame  == UNCHANGED <<idVars, postVars, optVars, filterVars, urlVars, fetchVars, parseVars, batchVars, listVars, netVars, personVars, expandVars, pageVars, readVars, restoreVars>>
FetchFrame  == UNCHANGED <<idVars, postVars, filterVars, urlVars, chunkResult, chunkPc, parseVars, batchVars, listVars, netVars, personVars, expandVars, pageVars, readVars, restoreVars>>
ParseFrame == UNCHANGED <<idVars, postVars, optVars, filterVars, urlVars, chunkVars, fetchVars, batchVars, listVars, netVars, personVars, expandVars, pageVars, readVars, restoreVars>>
BatchFrame == UNCHANGED <<idVars, postVars, optVars, filterVars, urlVars, chunkVars, fetchVars, parseVars, listVars, netVars, personVars, expandVars, pageVars, readVars, restoreVars>>
ListFrame == UNCHANGED <<idVars, postVars, optVars, filterVars, urlVars, chunkVars, fetchVars, parseVars, batchVars, netVars, personVars, expandVars, pageVars, readVars, restoreVars>>
NetFrame == UNCHANGED <<idVars, postVars, optVars, filterVars, urlVars, chunkVars, fetchVars, parseVars, batchVars, listVars, personVars, expandVars, pageVars, readVars, restoreVars>>
PersonFrame == UNCHANGED <<idVars, postVars, optVars, filterVars, urlVars, chunkVars, fetchVars, parseVars, batchVars, listVars, netVars, expandVars, pageVars, readVars, restoreVars>>
ExpandFrame == UNCHANGED <<idVars, postVars, optVars, filterVars, urlVars, chunkVars, fetchVars, parseVars, batchVars, listVars, netVars, personVars, pageVars, readVars, restoreVars>>
PageFrame == UNCHANGED <<idVars, postVars, optVars, filterVars, urlVars, chunkVars, fetchVars, parseVars, batchVars, listVars, netVars, personVars, expandVars, readVars, restoreVars>>
ReadFrame == UNCHANGED <<idVars, postVars, optVars, filterVars, urlVars, chunkVars, fetchVars, parseVars, batchVars, listVars, netVars, personVars, expandVars, pageVars, restoreVars>>
RestoreFrame == UNCHANGED <<idVars, postVars, optVars, filterVars, urlVars, chunkVars, fetchVars, parseVars, batchVars, listVars, netVars, personVars, expandVars, pageVars, readVars>>

-----------------------------------------------------------------------------
(* Bounds *)

MaxIdLen == 4
MaxPapers == 3
MaxFilterLen == 5
MaxRetries == 2
MaxCats == 2
MaxDayDigits == 4
MaxPageEntries == 2
BatchPages == 3
MaxItems == 2
MaxBuffer == 2
MaxEvents == 10
MaxNetPapers == 2
CrowdSize == 101
KeywordCrowd == 51
MaxNameTokens == 2
MaxExpandPapers == 1
MaxTotal == 4
MaxDates == 2
MaxCalls == 2
MaxMembers == 2

-----------------------------------------------------------------------------
(* Generic helpers on sequences *)

\* All sequences over S of length 0..n.
SeqsUpTo(S, n) == UNION {[1..k -> S] : k \in 0..n}

\* The subsequence of s at the positions in idx, in order.
RECURSIVE AtPositions(_, _, _)
AtPositions(s, idx, i) ==
    IF i > Len(s) THEN <<>>
    ELSE (IF i \in idx THEN <<s[i]>> ELSE <<>>) \o AtPositions(s, idx, i + 1)

-----------------------------------------------------------------------------
(* Identifier text *)

Digits == {"1", "2"}
IdAlphabet == Digits \cup {".", "v"}
Whitespace == {" "}

\* Number of digit tokens at the end of s (the longest match of \d+$).
RECURSIVE TrailingDigits(_)
TrailingDigits(s) ==
    IF Len(s) = 0 \/ s[Len(s)] \notin Digits THEN 0
    ELSE 1 + TrailingDigits(SubSeq(s, 1, Len(s) - 1))

\* re.sub(r"v\d+$", "", s): removes one trailing "v<digits>", if there is one.
StripVersion(s) ==
    LET n == TrailingDigits(s)
    IN  IF n >= 1 /\ Len(s) > n /\ s[Len(s) - n] = "v"
        THEN SubSeq(s, 1, Len(s) - n - 1)
        ELSE s

\* Whether s ends in a version suffix v<digits>.
HasVersionSuffix(s) ==
    LET n == TrailingDigits(s)
    IN  n >= 1 /\ Len(s) > n /\ s[Len(s) - n] = "v"

\* str.strip(): leading and trailing whitespace removed.
RECURSIVE StripWs(_)
StripWs(s) ==
    IF Len(s) = 0 THEN s
    ELSE IF s[1] \in Whitespace THEN StripWs(Tail(s))
    ELSE IF s[Len(s)] \in Whitespace THEN StripWs(SubSeq(s, 1, Len(s) - 1))
    ELSE s

\* Index of the last "/abs/" token of s, 0 when there is none.
RECURSIVE LastAbs(_)
LastAbs(s) ==
    IF Len(s) = 0 THEN 0
    ELSE IF s[Len(s)] = "/abs/" THEN Len(s)
    ELSE LastAbs(SubSeq(s, 1, Len(s) - 1))

\* raw_id.split("/abs/")[-1] if "/abs/" in raw_id else raw_id
AfterAbs(raw_id) ==
    IF LastAbs(raw_id) > 0 THEN SubSeq(raw_id, LastAbs(raw_id) + 1, Len(raw_id))
    ELSE raw_id

\* href.replace("/abs/", ""): every "/abs/" token removed.
RemoveAbs(href) == SelectSeq(href, LAMBDA t : t # "/abs/")

\* make_paper: the record every parser builds; the identifier is stripped of
\* surrounding whitespace, announce_type defaults to "new".
make_paper(arxiv_id, title, announce_type) ==
    [arxiv_id |-> StripWs(arxiv_id), title |-> title, announce_type |-> announce_type]

\* _parse_api_entry: the identifier is the text after "/abs/", version stripped.
_parse_api_entry(entry) ==
    make_paper(StripVersion(AfterAbs(entry.raw_id)), entry.title, "new")

\* _parse_rss_entry: as the API parser; the announce type is the text of the
\* entry's announce_type element, "new" when the element is absent or empty.
_parse_rss_entry(entry) ==
    make_paper(StripVersion(AfterAbs(entry.raw_id)), entry.title,
               IF entry.announce = "" THEN "new" ELSE entry.announce)

\* ArxivListParser: the identifier is the anchor's href with "/abs/" removed and
\* whitespace stripped; no version stripping.  An anchor whose href does not
\* start with "/abs/" sets no identifier, and no record is emitted without one.
ArxivListParser_id(href) ==
    IF Len(href) > 0 /\ href[1] = "/abs/" THEN StripWs(RemoveAbs(href)) ELSE <<>>

\* ArxivListParser on one listing item (anchor, title block, abstract block):
\* the records it emits, none when the identifier or the title is empty.
ArxivListParser_item(entry) ==
    LET id == ArxivListParser_id(entry.raw_id)
    IN  IF id # <<>> /\ entry.title # ""
        THEN <<make_paper(id, entry.title, "new")>>
        ELSE <<>>

-----------------------------------------------------------------------------
(* Deduplication and filtering *)

\* Mutant: the duplicate test compares the identifiers as they are, without
\* stripping the version.
RECURSIVE dedup_loop_rawkey(_, _, _)
dedup_loop_rawkey(ps, seen, unique) ==
    IF ps = <<>> THEN unique
    ELSE LET p == Head(ps)
             key == p.arxiv_id
         IN  IF key \notin seen
             THEN dedup_loop_rawkey(Tail(ps), seen \cup {key}, Append(unique, p))
             ELSE dedup_loop_rawkey(Tail(ps), seen, unique)

deduplicate_rawkey(ps) == dedup_loop_rawkey(ps, {}, <<>>)

\* The loop of deduplicate: seen is the set of keys met, unique the records kept.
RECURSIVE dedup_loop(_, _, _)
dedup_loop(ps, seen, unique) ==
    IF ps = <<>> THEN unique
    ELSE LET p == Head(ps)
             key == StripVersion(p.arxiv_id)
         IN  IF key \notin seen
             THEN dedup_loop(Tail(ps), seen \cup {key}, Append(unique, p))
             ELSE dedup_loop(Tail(ps), seen, unique)

deduplicate(ps) == dedup_loop(ps, {}, <<>>)

\* A record's announce_type may be a string, the value None, or no key at all.
NoneValue == "<None>"
Absent == "<absent>"
AllowedAnnounceTypes == {"new", "cross", "cross-list", ""}

\* p.get("announce_type", "new")
get_announce_type(p) ==
    IF p.announce_type = Absent THEN "new" ELSE p.announce_type

\* Mutant: a None announce_type is taken for a missing one.
filter_new_only_none_as_new(ps) ==
    SelectSeq(ps, LAMBDA p : p.announce_type = NoneValue
                             \/ get_announce_type(p) \in AllowedAnnounceTypes)

filter_new_only(ps) ==
    SelectSeq(ps, LAMBDA p : get_announce_type(p) \in AllowedAnnounceTypes)

-----------------------------------------------------------------------------
(* PostSpec: the entries of one source are parsed into records, then        *)
(* post-processed as fetch_papers does: deduplicate, then filter.           *)

Sources == {"api", "rss", "html"}

\* Identifier texts as a source may carry them (after "/abs/").
RawTails ==
    { <<"1">>, <<"1", "v", "1">>, <<"1", "v", "2">>,
      <<"1", "v", "1", "v", "2">>, <<"2", "v", "1", " ">> }

\* The identifier URI or href of an entry of source src.
RawId(src, tail) ==
    IF src = "html" THEN <<"/abs/">> \o tail
    ELSE <<"http://arxiv.org", "/abs/">> \o tail

\* Only the feed reports an announce type; titles tell apart the entries of
\* the other sources.
EntryPool(src) ==
    IF src = "rss"
    THEN {[raw_id |-> RawId(src, t), title |-> "t", announce |-> a] :
              t \in RawTails, a \in {"", "replacement"}}
    ELSE {[raw_id |-> RawId(src, t), title |-> ti, announce |-> ""] :
              t \in RawTails, ti \in {"a", "b"}}

\* An entry on which the parser's body raises: the parser catches the
\* exception and returns None.
Unparsable(entry) == "raises" \in DOMAIN entry

\* Mutant: the batch ends at the first entry that cannot be parsed.
RECURSIVE ParseEntriesUntilBad(_, _)
ParseEntriesUntilBad(src, es) ==
    IF es = <<>> \/ Unparsable(Head(es)) THEN <<>>
    ELSE (CASE src = "api"  -> <<_parse_api_entry(Head(es))>>
            [] src = "rss"  -> <<_parse_rss_entry(Head(es))>>
            [] src = "html" -> ArxivListParser_item(Head(es)))
         \o ParseEntriesUntilBad(src, Tail(es))

\* The entry loops of the fetchers: a record per entry, none for an entry the
\* parser returned None for.
RECURSIVE ParseEntries(_, _)
ParseEntries(src, es) ==
    IF es = <<>> THEN <<>>
    ELSE (IF Unparsable(Head(es)) THEN <<>>
          ELSE CASE src = "api"  -> <<_parse_api_entry(Head(es))>>
                 [] src = "rss"  -> <<_parse_rss_entry(Head(es))>>
                 [] src = "html" -> ArxivListParser_item(Head(es)))
         \o ParseEntries(src, Tail(es))

PostIdle ==
    /\ source = "api" /\ entries = <<>> /\ fetched = <<>> /\ papers = <<>>
    /\ postPc = "idle"

PostInit ==
    /\ source \in Sources
    /\ entries \in SeqsUpTo(EntryPool(source), MaxPapers)
    /\ include_replacements \in BOOLEAN
    /\ fetched = <<>>
    /\ papers = <<>>
    /\ postPc = "parse"

\* The source's fetcher parses every entry of the document.
PostParse ==
    /\ PostFrame
    /\ postPc = "parse"
    /\ fetched' = ParseEntries(source, entries)
    /\ papers' = ParseEntries(source, entries)
    /\ postPc' = "fetched"
    /\ UNCHANGED <<source, entries, include_replacements>>

\* fetch_papers: papers = deduplicate(papers)
PostDeduplicate ==
    /\ PostFrame
    /\ postPc = "fetched"
    /\ papers' = deduplicate(papers)
    /\ postPc' = "unique"
    /\ UNCHANGED <<source, entries, fetched, include_replacements>>

\* fetch_papers: if not include_replacements: papers = filter_new_only(papers)
PostFilter ==
    /\ PostFrame
    /\ postPc = "unique"
    /\ papers' = IF include_replacements THEN papers ELSE filter_new_only(papers)
    /\ postPc' = "done"
    /\ UNCHANGED <<source, entries, fetched, include_replacements>>

-----------------------------------------------------------------------------
(* IdSpec: the version strip applied to an identifier, and applied again.   *)

IdIdle == x = <<>> /\ y = <<>> /\ idPc = "idle"

IdInit ==
    /\ x \in SeqsUpTo(IdAlphabet, MaxIdLen)
    /\ y = x
    /\ idPc = "raw"

\* arxiv_id = re.sub(r"v\d+$", "", arxiv_id), on the raw identifier.
IdNormalize ==
    /\ IdFrame
    /\ idPc = "raw"
    /\ y' = StripVersion(y)
    /\ idPc' = "once"
    /\ UNCHANGED x

\* The same substitution on an identifier already normalised (deduplicate's
\* key of a record the API or feed parser built).
IdNormalizeAgain ==
    /\ IdFrame
    /\ idPc = "once"
    /\ y' = StripVersion(y)
    /\ idPc' = "twice"
    /\ UNCHANGED x

-----------------------------------------------------------------------------
(* FilterSpec: the announce-type filter on a list of records, as            *)
(* fetch_papers applies it.                                                 *)

AnnounceTypes ==
    {"new", "cross", "cross-list", "", "replacement", NoneValue, Absent}

FilterPool ==
    {[arxiv_id |-> <<"1">>, title |-> "t", announce_type |-> a] : a \in AnnounceTypes}

FilterIdle == fpapers = <<>> /\ fout = <<>> /\ filterPc = "idle"

FilterInit ==
    /\ fpapers \in SeqsUpTo(FilterPool, MaxFilterLen)
    /\ include_replacements \in BOOLEAN
    /\ fout = <<>>
    /\ filterPc = "start"

\* if not include_replacements: papers = filter_new_only(papers)
FilterApply ==
    /\ FilterFrame
    /\ filterPc = "start"
    /\ ~include_replacements
    /\ fout' = filter_new_only(fpapers)
    /\ filterPc' = "done"
    /\ UNCHANGED <<fpapers, include_replacements>>

\* With include_replacements the list is returned as it is.
FilterSkip ==
    /\ FilterFrame
    /\ filterPc = "start"
    /\ include_replacements
    /\ fout' = fpapers
    /\ filterPc' = "done"
    /\ UNCHANGED <<fpapers, include_replacements>>

-----------------------------------------------------------------------------
(* Errors.  An exception is its class, whether it is (or wraps, as          *)
(* URLError.reason) a socket.gaierror, and whether its text holds one of    *)
(* the resolver-failure phrases.                                            *)

Err(cls, gai, marker) == [cls |-> cls, gai |-> gai, marker |-> marker]

\* Mutant: the text of the error is not searched for resolver phrases.
_is_dns_error_by_class(err) ==
    \/ err.cls = "gaierror"
    \/ err.cls \in {"URLError", "HTTPError"} /\ err.gai

_is_dns_error(err) ==
    \/ err.cls = "gaierror"
    \/ err.cls \in {"URLError", "HTTPError"} /\ err.gai
    \/ err.marker

\* What urlopen raises that fetch_url catches: URLError, HTTPError, TimeoutError.
CaughtErrors ==
    { Err("URLError", TRUE, TRUE),      \* resolver failure, known phrasing
      Err("URLError", TRUE, FALSE),     \* resolver failure, other phrasing
      Err("URLError", FALSE, FALSE),    \* connection refused
      Err("HTTPError", FALSE, FALSE),
      Err("TimeoutError", FALSE, FALSE) }

\* An exception of another class (e.g. http.client.IncompleteRead from read()),
\* which fetch_url does not catch.
UncaughtError == Err("HTTPException", FALSE, FALSE)

-----------------------------------------------------------------------------
(* UrlSpec: fetch_url(url, retries)                                         *)

Netlocs == {"export.arxiv.org", "arxiv.org", "rss.arxiv.org"}
\* A path as its segments; "/api/query" is the prefix _fallback_urls tests.
Paths == { <<"/api/query">>, <<"/api/query", "/x">>, <<"/list", "/c", "/new">> }
Urls == [netloc : Netlocs, path : Paths]

\* Mutant: the alternate host is tried first.
_fallback_urls_altfirst(u) ==
    IF u.netloc = "export.arxiv.org" /\ Len(u.path) >= 1 /\ u.path[1] = "/api/query"
    THEN <<[u EXCEPT !.netloc = "arxiv.org"], u>>
    ELSE <<u>>

_fallback_urls(u) ==
    IF u.netloc = "export.arxiv.org" /\ Len(u.path) >= 1 /\ u.path[1] = "/api/query"
    THEN <<u, [u EXCEPT !.netloc = "arxiv.org"]>>
    ELSE <<u>>

\* Mutant: the backoff grows from the 0-based loop index.
BackoffFromZero(a) == 2 * a

\* time.sleep(2 * (attempt + 1)), attempt the 0-based loop index.
Backoff(a) == 2 * (a + 1)

\* ConnectionError raised on exhaustion: its text joins every failure's text.
AggregatedError(errs) ==
    Err("ConnectionError", FALSE, \E i \in 1..Len(errs) : errs[i].marker)

UrlIdle ==
    /\ url = [netloc |-> "arxiv.org", path |-> <<>>] /\ retries = 0
    /\ cand = 0 /\ attempt = 0 /\ errors = <<>> /\ saw_dns_error = FALSE
    /\ urlTrace = <<>> /\ urlResult = [kind |-> "none"] /\ urlPc = "idle"

UrlInit ==
    /\ url \in Urls
    /\ retries \in 0..MaxRetries
    /\ cand = 1
    /\ attempt = 0
    /\ errors = <<>>
    /\ saw_dns_error = FALSE
    /\ urlTrace = <<>>
    /\ urlResult = [kind |-> "none"]
    /\ urlPc = "attempt"

AttemptEvent(out, e) ==
    [type |-> "attempt", url |-> _fallback_urls(url)[cand], attempt |-> attempt,
     out |-> out, err |-> e]
SleepEvent(secs) == [type |-> "sleep", secs |-> secs]
NoErr == Err("", FALSE, FALSE)

\* The for loops move on after the attempts on a candidate end: the next
\* candidate, or the raise after the loops.
UrlNextCandidate(errs) ==
    IF cand < Len(_fallback_urls(url))
    THEN /\ cand' = cand + 1
         /\ attempt' = 0
         /\ urlPc' = "attempt"
         /\ urlResult' = urlResult
    ELSE /\ urlPc' = "raised"
         /\ urlResult' = [kind |-> "raise", err |-> AggregatedError(errs)]
         /\ UNCHANGED <<cand, attempt>>

\* urlopen succeeds: the body is returned.
UrlAttemptOk ==
    /\ UrlFrame
    /\ urlPc = "attempt"
    /\ urlTrace' = Append(urlTrace, AttemptEvent("ok", NoErr))
    /\ urlResult' = [kind |-> "return", body |-> _fallback_urls(url)[cand]]
    /\ urlPc' = "returned"
    /\ UNCHANGED <<url, retries, cand, attempt, errors, saw_dns_error>>

\* urlopen raises an error the handler catches.
UrlAttemptFail ==
    /\ UrlFrame
    /\ urlPc = "attempt"
    /\ \E e \in CaughtErrors :
        /\ errors' = Append(errors, e)
        /\ urlTrace' = Append(urlTrace, AttemptEvent("fail", e))
        /\ IF _is_dns_error(e)
           THEN /\ saw_dns_error' = TRUE
                /\ UrlNextCandidate(Append(errors, e))
           ELSE /\ saw_dns_error' = saw_dns_error
                /\ IF attempt < retries
                   THEN /\ urlPc' = "sleep"
                        /\ UNCHANGED <<cand, attempt, urlResult>>
                   ELSE UrlNextCandidate(Append(errors, e))
    /\ UNCHANGED <<url, retries>>

\* The backoff before the next attempt on the same candidate.
UrlSleep ==
    /\ UrlFrame
    /\ urlPc = "sleep"
    /\ urlTrace' = Append(urlTrace, SleepEvent(Backoff(attempt)))
    /\ attempt' = attempt + 1
    /\ urlPc' = "attempt"
    /\ UNCHANGED <<url, retries, cand, errors, saw_dns_error, urlResult>>

\* urlopen or read raises an exception the handler does not name: it
\* leaves fetch_url as it is.
UrlAttemptEscape ==
    /\ UrlFrame
    /\ urlPc = "attempt"
    /\ urlTrace' = Append(urlTrace, AttemptEvent("escape", UncaughtError))
    /\ urlResult' = [kind |-> "raise", err |-> UncaughtError]
    /\ urlPc' = "escaped"
    /\ UNCHANGED <<url, retries, cand, attempt, errors, saw_dns_error>>

-----------------------------------------------------------------------------
(* Dates.  A date string "YYYYMMDD" is the number its digits spell; a        *)
(* datetime is its proleptic Gregorian ordinal (0001-01-01 is day 1).       *)

\* datetime.max is 9999-12-31; date arithmetic past it raises OverflowError.
MaxOrdinal == 3652059
\* timedelta(days=n) raises OverflowError for |n| > 999999999.
MaxTimedeltaDays == 999999999

IsLeap(yr) == yr % 4 = 0 /\ (yr % 100 # 0 \/ yr % 400 = 0)

DaysInMonth(yr, mo) ==
    IF mo = 2 /\ IsLeap(yr) THEN 29
    ELSE <<31, 28, 31, 30, 31, 30, 31, 31, 30, 31, 30, 31>>[mo]

RECURSIVE DaysBeforeMonth(_, _)
DaysBeforeMonth(yr, mo) ==
    IF mo = 1 THEN 0 ELSE DaysBeforeMonth(yr, mo - 1) + DaysInMonth(yr, mo - 1)

DaysBeforeYear(yr) ==
    (yr - 1) * 365 + (yr - 1) \div 4 - (yr - 1) \div 100 + (yr - 1) \div 400

\* Whether the digits of token name a calendar date (strptime accepts them).
ValidYmd(token) ==
    LET yr == token \div 10000
        mo == (token \div 100) % 100
        dy == token % 100
    IN  /\ yr \in 1..9999
        /\ mo \in 1..12
        /\ dy >= 1 /\ dy <= DaysInMonth(yr, mo)

\* datetime.strptime(token, "%Y%m%d"), as an ordinal.
strptime(token) ==
    LET yr == token \div 10000
        mo == (token \div 100) % 100
        dy == token % 100
    IN  DaysBeforeYear(yr) + DaysBeforeMonth(yr, mo) + dy

\* dt.strftime("%Y%m%d"): year, month and day of the ordinal, as digits.
strftime(ord) ==
    LET n0 == ord - 1
        n400 == n0 \div 146097
        r1 == n0 % 146097
        n100 == r1 \div 36524
        r2 == r1 % 36524
        n4 == r2 \div 1461
        r3 == r2 % 1461
        n1 == r3 \div 365
        r4 == r3 % 365
        yr == n400 * 400 + n100 * 100 + n4 * 4 + n1 + 1
    IN  IF n1 = 4 \/ n100 = 4
        THEN (yr - 1) * 10000 + 1231
        ELSE LET mo == CHOOSE m \in 1..12 :
                           /\ DaysBeforeMonth(yr, m) <= r4
                           /\ r4 < DaysBeforeMonth(yr, m) + DaysInMonth(yr, m)
             IN  yr * 10000 + mo * 100 + (r4 - DaysBeforeMonth(yr, mo) + 1)

Max(a, b) == IF a >= b THEN a ELSE b
Min(a, b) == IF a <= b THEN a ELSE b

ChunksReturn(chunks) == [raised |-> "", chunks |-> chunks]
ChunksRaise(cls) == [raised |-> cls, chunks |-> <<>>]

\* The while loop of _build_date_chunks.  cursor + timedelta(days=cd - 1)
\* is computed before the min with end_dt, and chunk_end + timedelta(days=1)
\* after every chunk, the last one included.
RECURSIVE build_chunks_loop(_, _, _, _)
build_chunks_loop(cursor, end_dt, cd, chunks) ==
    IF cursor > end_dt THEN ChunksReturn(chunks)
    ELSE IF cd - 1 > MaxTimedeltaDays \/ cursor + (cd - 1) > MaxOrdinal
    THEN ChunksRaise("OverflowError")
    ELSE LET chunk_end == Min(cursor + (cd - 1), end_dt)
         IN  IF chunk_end + 1 > MaxOrdinal
             THEN ChunksRaise("OverflowError")
             ELSE build_chunks_loop(chunk_end + 1, end_dt, cd,
                      Append(chunks, <<strftime(cursor), strftime(chunk_end)>>))

_build_date_chunks(from, to, days) ==
    IF ~ValidYmd(from) \/ ~ValidYmd(to) THEN ChunksRaise("ValueError")
    ELSE LET a == strptime(from)
             b == strptime(to)
         IN  build_chunks_loop(Min(a, b), Max(a, b), Max(1, days), <<>>)

-----------------------------------------------------------------------------
(* ChunkSpec: _build_date_chunks on a pair of dates and a chunk size.       *)

\* Dates around a leap day, the dates of the documented example, and the
\* last dates a datetime can hold; a call takes both dates from one group.
DateGroups ==
    { {20240227, 20240228, 20240229, 20240301},
      {20250101, 20250107, 20250108, 20250120},
      {99991230, 99991231} }

\* --chunk-days is any integer.
ChunkDaysInputs == {-1, 0, 1, 2, 7, 3000000}

ChunkIdle ==
    /\ date_from = 0 /\ date_to = 0 /\ chunk_days = 0
    /\ chunkResult = ChunksReturn(<<>>) /\ chunkPc = "idle"

ChunkInit ==
    /\ \E g \in DateGroups : date_from \in g /\ date_to \in g
    /\ chunk_days \in ChunkDaysInputs
    /\ chunkResult = ChunksReturn(<<>>)
    /\ chunkPc = "call"

ChunkBuild ==
    /\ ChunkFrame
    /\ chunkPc = "call"
    /\ chunkResult' = _build_date_chunks(date_from, date_to, chunk_days)
    /\ chunkPc' = "done"
    /\ UNCHANGED <<date_from, date_to, chunk_days>>

-----------------------------------------------------------------------------
(* The fetchers.  A call of fetch_url is what it gives its caller: the      *)
(* document, the ConnectionError it raises on exhaustion (whose text holds  *)
(* a resolver-failure phrase when one of the failures' texts did), or an    *)
(* exception it does not catch.  Durations are in tenths of a second.       *)

API_DELAY == 31
DEFAULT_CHUNK_DAYS == 7
\* _fetch_atom_root(url, retries=3)
AtomRetries == 3
\* fetch_html_listing: time.sleep(1)
HtmlDelay == 10

FetchErrors ==
    { Err("ConnectionError", FALSE, FALSE),
      Err("ConnectionError", FALSE, TRUE),
      UncaughtError }

\* ET.fromstring on a document that is not well-formed XML.
ParseError == Err("ParseError", FALSE, FALSE)

\* An Atom document of the query API: whether it parses, its totalResults and
\* the number of its entries.
\* bad: the positions of the entries the parser cannot parse.
ApiDocWith(parsable, total, n, bad) ==
    [err |-> NoErr, parsable |-> parsable, total |-> total, n |-> n, bad |-> bad]
ApiDoc(parsable, total, n) == ApiDocWith(parsable, total, n, {})
ApiFailed(e) == [err |-> e, parsable |-> FALSE, total |-> 0, n |-> 0, bad |-> {}]

\* The server's pages hold one entry: a chunk of 0, 1 or 2 results.
ApiFetchOutcomes ==
    { ApiDoc(FALSE, 0, 0), ApiDoc(TRUE, 0, 0), ApiDoc(TRUE, 1, 1),
      ApiDoc(TRUE, 2, 1) }
    \cup { ApiFailed(e) : e \in FetchErrors }

\* The for loop of _fetch_atom_root over the outcomes of its fetch_url calls:
\* the parsed root, or ConnectionError carrying the last error's text.
RECURSIVE atom_root_loop(_, _)
atom_root_loop(outs, try) ==
    LET o == outs[try + 1]
        e == IF o.err # NoErr THEN o.err ELSE ParseError
        raised == ApiFailed(Err("ConnectionError", FALSE, e.marker))
    IN  IF o.err = NoErr /\ o.parsable THEN o
        ELSE IF _is_dns_error(e) THEN raised
        ELSE IF try < AtomRetries THEN atom_root_loop(outs, try + 1)
        ELSE raised

_fetch_atom_root(outs) == atom_root_loop(outs, 0)

\* Every result _fetch_atom_root can give for one page request.
AtomRootResults ==
    { _fetch_atom_root(outs) : outs \in [1..(AtomRetries + 1) -> ApiFetchOutcomes] }

\* The k-th entry the API delivers for a chunk.
ApiEntry(k) ==
    [raw_id |-> RawId("api", <<<<"1", "2", "3", "4", "5", "6", "7", "8", "9">>[k],
                               "v", "1">>),
     title |-> "api", announce |-> ""]
BadEntry == [raises |-> TRUE]

RequestEvent(start) == [type |-> "request", start |-> start]
DelayEvent(tenths) == [type |-> "delay", tenths |-> tenths]

ChunkReturn(ps, events) == [err |-> NoErr, papers |-> ps, events |-> events]
ChunkRaise(e, events) == [err |-> e, papers |-> <<>>, events |-> events]

\* The while loop of _fetch_api_daterange_chunk over the results of its page
\* requests; total = -1 stands for None.
RECURSIVE chunk_page_loop(_, _, _, _, _)
chunk_page_loop(pages, start, total, ps, events) ==
    IF ~(total = -1 \/ start < total) THEN ChunkReturn(ps, events)
    ELSE LET root == Head(pages)
             ev == Append(events, RequestEvent(start))
         IN  IF root.err # NoErr THEN ChunkRaise(root.err, ev)
             ELSE IF total = -1 /\ root.total = 0 THEN ChunkReturn(ps, ev)
             ELSE IF root.n = 0 THEN ChunkReturn(ps, ev)
             ELSE LET tot == IF total = -1 THEN root.total ELSE total
                      got == ParseEntries("api",
                                 [k \in 1..root.n |->
                                     IF k \in root.bad THEN BadEntry
                                     ELSE ApiEntry(start + k)])
                  IN  chunk_page_loop(Tail(pages), start + root.n, tot, ps \o got,
                          IF start + root.n < tot
                          THEN Append(ev, DelayEvent(API_DELAY)) ELSE ev)

_fetch_api_daterange_chunk(pages) == chunk_page_loop(pages, 0, -1, <<>>, <<>>)

\* Every result of one chunk fetch: the first page request gives any result
\* of _fetch_atom_root; the second page, requested for a chunk of 2 results,
\* arrives with its entry, and no chunk needs a third page.
ChunkResults ==
    { _fetch_api_daterange_chunk(<<p, q>>) :
          p \in AtomRootResults,
          q \in {r \in AtomRootResults : r.err = NoErr /\ r.n > 0} }

\* The feed: one fetch_url call, then the parse of every entry.
RssDoc(parsable, es) == [err |-> NoErr, parsable |-> parsable, entries |-> es]
RssFailed(e) == [err |-> e, parsable |-> FALSE, entries |-> <<>>]
RssEntry(tail, announce) ==
    [raw_id |-> RawId("rss", tail), title |-> "rss", announce |-> announce]

RssOutcomes ==
    { RssFailed(Err("ConnectionError", FALSE, FALSE)),
      RssDoc(FALSE, <<>>),
      RssDoc(TRUE, <<>>),
      RssDoc(TRUE, <<RssEntry(<<"1", "v", "1">>, "")>>),
      RssDoc(TRUE, <<RssEntry(<<"1", "v", "1">>, "replacement")>>),
      RssDoc(TRUE, <<RssEntry(<<"1", "v", "2">>, "replacement"),
                     RssEntry(<<"2", "v", "1">>, "new")>>) }

\* fetch_rss_today catches every exception of the fetch and the parse.
fetch_rss_today(out) ==
    IF out.err # NoErr \/ ~out.parsable THEN <<>>
    ELSE ParseEntries("rss", out.entries)

\* A listing page of one category: the fetch fails, or the page holds items.
HtmlPage(es) == [err |-> NoErr, entries |-> es]
HtmlFailed(e) == [err |-> e, entries |-> <<>>]
HtmlOutcomes ==
    { HtmlFailed(Err("ConnectionError", FALSE, FALSE)),
      HtmlPage(<<>>),
      HtmlPage(<<[raw_id |-> RawId("html", <<"1">>), title |-> "html",
                  announce |-> ""]>>) }

HtmlReturn(ps) == [err |-> NoErr, papers |-> ps]
HtmlRaise(e) == [err |-> e, papers |-> <<>>]

\* Mutant: fetch_html_listing without its try/except, the first failure
\* leaves the function.
RECURSIVE html_loop_uncaught(_, _, _, _)
html_loop_uncaught(cats, outs, i, ps) ==
    IF i > Len(cats) THEN HtmlReturn(ps)
    ELSE IF outs[i].err # NoErr THEN HtmlRaise(outs[i].err)
    ELSE html_loop_uncaught(cats, outs, i + 1,
                            ps \o ParseEntries("html", outs[i].entries))

fetch_html_listing_uncaught(cats, outs) == html_loop_uncaught(cats, outs, 1, <<>>)

\* The for loop of fetch_html_listing: a category whose fetch or parse raises
\* contributes nothing.
RECURSIVE html_loop(_, _, _, _)
html_loop(cats, outs, i, ps) ==
    IF i > Len(cats) THEN HtmlReturn(ps)
    ELSE html_loop(cats, outs, i + 1,
                   IF outs[i].err # NoErr THEN ps
                   ELSE ps \o ParseEntries("html", outs[i].entries))

fetch_html_listing(cats, outs) == html_loop(cats, outs, 1, <<>>)

-----------------------------------------------------------------------------
(* FetchSpec: fetch_papers(categories, period), after parse_period gave the *)
(* mode.  main() calls it with at least one category.                       *)

Modes == {"today", "daterange", "html_page"}

\* Category lists; a name may repeat.  Lists that differ only by renaming
\* are taken once.
CategoryLists ==
    { c \in SeqsUpTo({"a", "b"}, MaxCats) : c # <<>> /\ c[1] = "a" }

\* (date_from, date_to) as parse_period returns them: one day, eight days, a
\* single-date input naming no calendar date, and the last day of year 9999.
DateRanges ==
    { <<20250101, 20250101>>, <<20250101, 20250108>>,
      <<20251345, 20251345>>, <<99991231, 99991231>> }

NoPrimary == [done |-> FALSE, raised |-> FALSE, err |-> NoErr, papers |-> <<>>]
PrimaryReturned(ps) == [done |-> TRUE, raised |-> FALSE, err |-> NoErr, papers |-> ps]
PrimaryRaised(e) == [done |-> TRUE, raised |-> TRUE, err |-> e, papers |-> <<>>]

RssEvent(ok) == [type |-> "rss", ok |-> ok]
ChunkEvent(c, i, r) ==
    [type |-> "chunk", cat |-> c, chunk |-> i, err |-> r.err, papers |-> r.papers,
     requests |-> Cardinality({k \in 1..Len(r.events) : r.events[k].type = "request"})]
HtmlEvent(pg, outs) ==
    [type |-> "html", page |-> pg,
     ok |-> \E i \in 1..Len(outs) : outs[i].err = NoErr]

\* Mutant: the fallback is taken whatever the primary source returned.
NeedsFallbackAlways(ps) == TRUE

\* if not papers:
NeedsFallback(ps) == ps = <<>>

FallbackPage(m) == IF m = "today" THEN "new" ELSE "recent"

FetchIdle ==
    /\ mode = "" /\ categories = <<>> /\ page = ""
    /\ fp_papers = <<>> /\ primary = NoPrimary
    /\ total_chunks = <<>> /\ cat_i = 0 /\ chunk_i = 0
    /\ category_papers = <<>> /\ api_papers = <<>>
    /\ fpTrace = <<>> /\ fpResult = <<>> /\ fpPc = "idle"

FetchInit ==
    /\ mode \in Modes
    /\ categories \in CategoryLists
    /\ page = (IF mode = "html_page" THEN "recent" ELSE "")
    /\ \E dr \in (IF mode = "daterange" THEN DateRanges ELSE {<<0, 0>>}) :
          date_from = dr[1] /\ date_to = dr[2]
    /\ chunk_days = DEFAULT_CHUNK_DAYS
    \* Only the feed reports replacements: elsewhere the flag changes nothing.
    /\ include_replacements \in (IF mode = "today" THEN BOOLEAN ELSE {FALSE})
    /\ fp_papers = <<>> /\ primary = NoPrimary
    /\ total_chunks = <<>> /\ cat_i = 0 /\ chunk_i = 0
    /\ category_papers = <<>> /\ api_papers = <<>>
    /\ fpTrace = <<>> /\ fpResult = <<>> /\ fpPc = "start"

FetchInputs == <<mode, categories, page, date_from, date_to, chunk_days,
                 include_replacements>>
ApiLocals == <<total_chunks, cat_i, chunk_i, category_papers, api_papers>>

\* today: papers = fetch_rss_today(categories)
FpRss ==
    /\ FetchFrame
    /\ fpPc = "start" /\ mode = "today"
    /\ \E out \in RssOutcomes :
          /\ fp_papers' = fetch_rss_today(out)
          /\ primary' = PrimaryReturned(fetch_rss_today(out))
          /\ fpTrace' = Append(fpTrace, RssEvent(out.err = NoErr /\ out.parsable))
    /\ fpPc' = "fallback"
    /\ UNCHANGED <<FetchInputs, ApiLocals, fpResult>>

\* daterange: fetch_api_daterange begins with _build_date_chunks; what it
\* raises leaves fetch_api_daterange and is caught by fetch_papers.
ApiStart ==
    /\ FetchFrame
    /\ fpPc = "start" /\ mode = "daterange"
    /\ LET r == _build_date_chunks(date_from, date_to, chunk_days)
       IN  IF r.raised # ""
           THEN /\ primary' = PrimaryRaised(Err(r.raised, FALSE, FALSE))
                /\ fpPc' = "fallback"
                /\ UNCHANGED ApiLocals
           ELSE /\ total_chunks' = r.chunks
                /\ cat_i' = 1 /\ chunk_i' = 1
                /\ fpPc' = "api"
                /\ UNCHANGED <<primary, category_papers, api_papers>>
    /\ UNCHANGED <<FetchInputs, fp_papers, fpTrace, fpResult>>

\* The rest of one iteration of the chunk loop once the chunk is handled, cp
\* being category_papers and events what the iteration logged: the delay
\* before the next chunk, or the end of the category (papers.extend, the
\* delay before the next category) and, after the last category, the return.
ApiAdvance(cp, events) ==
    IF chunk_i < Len(total_chunks)
    THEN /\ category_papers' = cp
         /\ chunk_i' = chunk_i + 1
         /\ fpTrace' = fpTrace \o events \o <<DelayEvent(API_DELAY)>>
         /\ UNCHANGED <<cat_i, api_papers, fp_papers, primary, fpPc>>
    ELSE /\ category_papers' = <<>>
         /\ api_papers' = api_papers \o cp
         /\ fpTrace' = fpTrace \o events \o
                (IF categories[cat_i] # categories[Len(categories)]
                 THEN <<DelayEvent(API_DELAY)>> ELSE <<>>)
         /\ IF cat_i < Len(categories)
            THEN /\ cat_i' = cat_i + 1 /\ chunk_i' = 1
                 /\ UNCHANGED <<fp_papers, primary, fpPc>>
            ELSE /\ fp_papers' = api_papers \o cp
                 /\ primary' = PrimaryReturned(api_papers \o cp)
                 /\ fpPc' = "fallback"
                 /\ UNCHANGED <<cat_i, chunk_i>>

\* A chunk whose fetch returns: category_papers.extend(chunk_papers)
ApiChunkOk ==
    /\ FetchFrame
    /\ fpPc = "api"
    /\ \E r \in ChunkResults :
          /\ r.err = NoErr
          /\ ApiAdvance(category_papers \o r.papers,
                        r.events \o <<ChunkEvent(cat_i, chunk_i, r)>>)
    /\ UNCHANGED <<FetchInputs, total_chunks, fpResult>>

\* A chunk whose fetch raises an error that _is_dns_error rejects: skipped.
ApiChunkSkip ==
    /\ FetchFrame
    /\ fpPc = "api"
    /\ \E r \in ChunkResults :
          /\ r.err # NoErr /\ ~_is_dns_error(r.err)
          /\ ApiAdvance(category_papers,
                        r.events \o <<ChunkEvent(cat_i, chunk_i, r)>>)
    /\ UNCHANGED <<FetchInputs, total_chunks, fpResult>>

\* A chunk whose fetch raises an error that _is_dns_error accepts:
\* ConnectionError leaves fetch_api_daterange and is caught by fetch_papers,
\* whose papers stays the empty list.
ApiChunkDns ==
    /\ FetchFrame
    /\ fpPc = "api"
    /\ \E r \in ChunkResults :
          /\ r.err # NoErr /\ _is_dns_error(r.err)
          /\ fpTrace' = fpTrace \o r.events \o <<ChunkEvent(cat_i, chunk_i, r)>>
          /\ primary' = PrimaryRaised(Err("ConnectionError", FALSE, r.err.marker))
    /\ fpPc' = "fallback"
    /\ UNCHANGED <<FetchInputs, ApiLocals, fp_papers, fpResult>>

\* today and daterange, if not papers: the HTML listing, inside try/except.
FpHtmlFallback ==
    /\ FetchFrame
    /\ fpPc = "fallback" /\ NeedsFallback(fp_papers)
    /\ \E outs \in [1..Len(categories) -> HtmlOutcomes] :
          LET r == fetch_html_listing(categories, outs)
          IN  /\ fp_papers' = (IF r.err = NoErr THEN r.papers ELSE fp_papers)
              /\ fpTrace' = Append(fpTrace, HtmlEvent(FallbackPage(mode), outs))
    /\ fpPc' = "post"
    /\ UNCHANGED <<FetchInputs, ApiLocals, primary, fpResult>>

\* html_page: the HTML listing, outside any try/except.
FpHtmlPage ==
    /\ FetchFrame
    /\ fpPc = "start" /\ mode = "html_page"
    /\ \E outs \in [1..Len(categories) -> HtmlOutcomes] :
          LET r == fetch_html_listing(categories, outs)
          IN  /\ fp_papers' = (IF r.err = NoErr THEN r.papers ELSE fp_papers)
              /\ fpPc' = (IF r.err = NoErr THEN "post" ELSE "raised")
              /\ fpTrace' = Append(fpTrace, HtmlEvent(page, outs))
    /\ UNCHANGED <<FetchInputs, ApiLocals, primary, fpResult>>

\* Post-process and return: deduplicate, then filter unless replacements are
\* asked for.
FpPost ==
    /\ FetchFrame
    /\ fpPc = "post" \/ (fpPc = "fallback" /\ ~NeedsFallback(fp_papers))
    /\ fpResult' = (IF include_replacements THEN deduplicate(fp_papers)
                    ELSE filter_new_only(deduplicate(fp_papers)))
    /\ fpPc' = "returned"
    /\ UNCHANGED <<FetchInputs, ApiLocals, fp_papers, primary, fpTrace>>

-----------------------------------------------------------------------------
(* Period text.  A period is a sequence of one-character strings.           *)

DigitChars == <<"0", "1", "2", "3", "4", "5", "6", "7", "8", "9">>
UpperChars == <<"A", "B", "C", "D", "E", "F", "G", "H", "I", "J", "K", "L", "M",
                "N", "O", "P", "Q", "R", "S", "T", "U", "V", "W", "X", "Y", "Z">>
LowerChars == <<"a", "b", "c", "d", "e", "f", "g", "h", "i", "j", "k", "l", "m",
                "n", "o", "p", "q", "r", "s", "t", "u", "v", "w", "x", "y", "z">>

IsDigit(c) == \E k \in 1..10 : DigitChars[k] = c
DigitValue(c) == (CHOOSE k \in 1..10 : DigitChars[k] = c) - 1
AllDigits(s) == \A i \in 1..Len(s) : IsDigit(s[i])

\* int(text) of a digit string.
RECURSIVE DigitsValue(_)
DigitsValue(s) ==
    IF s = <<>> THEN 0
    ELSE DigitsValue(SubSeq(s, 1, Len(s) - 1)) * 10 + DigitValue(s[Len(s)])

\* The decimal text of n.
RECURSIVE NatText(_)
NatText(n) ==
    IF n < 10 THEN <<DigitChars[n + 1]>>
    ELSE NatText(n \div 10) \o <<DigitChars[(n % 10) + 1]>>

\* The decimal text of n, zero-padded to at least w characters.
RECURSIVE PadText(_, _)
PadText(n, w) ==
    IF Len(NatText(n)) >= w THEN NatText(n)
    ELSE <<"0">> \o PadText(n, w - 1)

\* The text of the date string a YYYYMMDD number stands for.
YmdText(ymd) ==
    PadText(ymd \div 10000, 4) \o PadText((ymd \div 100) % 100, 2)
    \o PadText(ymd % 100, 2)

\* str.lower() and str.strip()
LowerChar(c) ==
    IF \E k \in 1..26 : UpperChars[k] = c
    THEN LowerChars[CHOOSE k \in 1..26 : UpperChars[k] = c]
    ELSE c
LowerText(s) == [i \in 1..Len(s) |-> LowerChar(s[i])]

\* text.replace("-", "")
RemoveDashes(s) == SelectSeq(s, LAMBDA c : c # "-")

\* Positions of ":" in s, and s.split(":") when there is exactly one.
ColonPositions(s) == {i \in 1..Len(s) : s[i] = ":"}
BeforeColon(s) ==
    SubSeq(s, 1, (CHOOSE i \in ColonPositions(s) : TRUE) - 1)
AfterColon(s) ==
    SubSeq(s, (CHOOSE i \in ColonPositions(s) : TRUE) + 1, Len(s))

\* ^(\d{1,3})d$
MatchesDays(s) ==
    /\ Len(s) >= 2 /\ Len(s) <= 4
    /\ s[Len(s)] = "d"
    /\ AllDigits(SubSeq(s, 1, Len(s) - 1))

\* ^\d{4}-\d{2}-\d{2}$
MatchesSingleDate(s) ==
    /\ Len(s) = 10
    /\ s[5] = "-" /\ s[8] = "-"
    /\ AllDigits(SubSeq(s, 1, 4)) /\ AllDigits(SubSeq(s, 6, 7))
    /\ AllDigits(SubSeq(s, 9, 10))

\* ^\d{4}-\d{2}$
MatchesMonth(s) ==
    /\ Len(s) = 7
    /\ s[5] = "-"
    /\ AllDigits(SubSeq(s, 1, 4)) /\ AllDigits(SubSeq(s, 6, 7))

\* _normalize_ymd: the dashes removed; "" unless 8 digits naming a date.
_normalize_ymd(text) ==
    LET token == RemoveDashes(text)
    IN  IF ~(Len(token) = 8 /\ AllDigits(token)) THEN <<>>
        ELSE IF ~ValidYmd(DigitsValue(token)) THEN <<>>
        ELSE token

PeriodReturn(m, a, b) == [raised |-> "", mode |-> m, from |-> a, to |-> b]
PeriodRaise(cls) == [raised |-> cls, mode |-> "", from |-> <<>>, to |-> <<>>]

\* datetime.now() - timedelta(days) .. datetime.now(), formatted.
DaysBack(today, days) ==
    PeriodReturn("daterange", YmdText(strftime(today - days)), YmdText(strftime(today)))

\* Mutant: the day count of "<N>d" is taken as written.
ClampDaysAsWritten(n) == n

\* max(1, int(m_days.group(1)))
ClampDays(n) == Max(1, n)

\* The month shorthand: strptime(period + "-01") raises ValueError for a
\* month outside 01..12 or the year 0000, and replace(year=year + 1) for
\* December of the year 9999.
MonthShorthand(p) ==
    LET yr == DigitsValue(SubSeq(p, 1, 4))
        mo == DigitsValue(SubSeq(p, 6, 7))
    IN  IF ~ValidYmd(yr * 10000 + mo * 100 + 1) THEN PeriodRaise("ValueError")
        ELSE IF mo = 12 /\ yr + 1 > 9999 THEN PeriodRaise("ValueError")
        ELSE LET month_start == strptime(yr * 10000 + mo * 100 + 1)
                 next_month == IF mo = 12 THEN strptime((yr + 1) * 10000 + 101)
                               ELSE strptime(yr * 10000 + (mo + 1) * 100 + 1)
             IN  PeriodReturn("daterange", YmdText(strftime(month_start)),
                              YmdText(strftime(next_month - 1)))

parse_period(raw, today) ==
    LET p == LowerText(StripWs(raw))
    IN  IF p = <<"t", "o", "d", "a", "y">> THEN PeriodReturn("today", <<>>, <<>>)
        ELSE IF p \in {<<"w", "e", "e", "k">>, <<"p", "a", "s", "t", "w", "e", "e", "k">>}
        THEN DaysBack(today, 7)
        ELSE IF p \in {<<"m", "o", "n", "t", "h">>,
                       <<"p", "a", "s", "t", "m", "o", "n", "t", "h">>,
                       <<"3", "0", "d">>}
        THEN DaysBack(today, 30)
        ELSE IF MatchesDays(p)
        THEN DaysBack(today, ClampDays(DigitsValue(SubSeq(p, 1, Len(p) - 1))))
        ELSE IF p = <<"r", "e", "c", "e", "n", "t">>
        THEN PeriodReturn("html_page", p, <<>>)
        ELSE IF MatchesSingleDate(p)
        THEN PeriodReturn("daterange", RemoveDashes(p), RemoveDashes(p))
        ELSE IF /\ Cardinality(ColonPositions(p)) = 1
                /\ _normalize_ymd(StripWs(BeforeColon(p))) # <<>>
                /\ _normalize_ymd(StripWs(AfterColon(p))) # <<>>
        THEN PeriodReturn("daterange", _normalize_ymd(StripWs(BeforeColon(p))),
                          _normalize_ymd(StripWs(AfterColon(p))))
        ELSE IF MatchesMonth(p) THEN MonthShorthand(p)
        ELSE PeriodReturn("html_page", p, <<>>)

-----------------------------------------------------------------------------
(* ParseSpec: parse_period on a period text, on a given day.                *)

\* The day datetime.now() gives: around a leap day, a year's first day, and
\* a day of late 2026.
TodayPool == {20240301, 20250101, 20261104}

Keywords ==
    { <<"t", "o", "d", "a", "y">>, <<" ", "T", "o", "d", "a", "y", " ">>,
      <<"w", "e", "e", "k">>, <<"p", "a", "s", "t", "w", "e", "e", "k">>,
      <<"m", "o", "n", "t", "h">>, <<"p", "a", "s", "t", "m", "o", "n", "t", "h">>,
      <<"r", "e", "c", "e", "n", "t">>, <<"R", "e", "c", "e", "n", "t">>,
      <<"2", "5", "1", "1">>, <<"n", "e", "w">>, <<>> }

\* "<N>d": digit strings of up to MaxDayDigits characters.
DayCountTexts ==
    { ds \o <<"d">> : ds \in SeqsUpTo({"0", "1", "3", "9"}, MaxDayDigits) \ {<<>>} }

DashedDate(yr, mo, dy) ==
    PadText(yr, 4) \o <<"-">> \o PadText(mo, 2) \o <<"-">> \o PadText(dy, 2)

\* Date-shaped tokens: real dates, and digits that name no date.
DateTokens ==
    { DashedDate(2025, 11, 10), DashedDate(2025, 11, 14), DashedDate(2024, 2, 29),
      DashedDate(2025, 2, 29), DashedDate(2025, 13, 1), DashedDate(2025, 11, 31),
      DashedDate(2025, 13, 45), DashedDate(2025, 0, 10) }

\* Ranges, with blanks around the colon or not, and with a third part.
RangeTexts ==
    { a \o <<":">> \o b : a, b \in DateTokens }
    \cup { DashedDate(2025, 11, 10) \o <<" ", ":", " ">> \o DashedDate(2025, 11, 14),
           DashedDate(2025, 11, 10) \o <<":">>,
           DashedDate(2025, 11, 10) \o <<":">> \o DashedDate(2025, 11, 14)
               \o <<":">> \o DashedDate(2025, 11, 15) }

\* "YYYY-MM" for each month number 00..13 of a leap year, a common year and
\* the last year a datetime can hold.
MonthTexts ==
    { PadText(yr, 4) \o <<"-">> \o PadText(mo, 2) :
          yr \in {2024, 2025, 9999}, mo \in 0..13 }

PeriodPool == Keywords \cup DayCountTexts \cup DateTokens \cup RangeTexts \cup MonthTexts

ParseIdle ==
    /\ period = <<>> /\ now = 0
    /\ ppResult = PeriodReturn("", <<>>, <<>>) /\ ppPc = "idle"

ParseInit ==
    /\ period \in PeriodPool
    /\ now \in TodayPool
    /\ ppResult = PeriodReturn("", <<>>, <<>>)
    /\ ppPc = "call"

ParsePeriod ==
    /\ ParseFrame
    /\ ppPc = "call"
    /\ ppResult' = parse_period(period, strptime(now))
    /\ ppPc' = "done"
    /\ UNCHANGED <<period, now>>

-----------------------------------------------------------------------------
(* BatchSpec: one batch of entries, some of which the entry parser cannot    *)
(* parse, through _fetch_api_daterange_chunk or fetch_rss_today.             *)

\* Pages of a chunk with up to MaxPageEntries entries each, any of them
\* unparsable; only the first page's totalResults is read.
PagePool(totals) ==
    { ApiDocWith(TRUE, t, n, bad) :
        t \in totals, n \in 0..MaxPageEntries, bad \in SUBSET (1..MaxPageEntries) }

BatchFirstPages ==
    { p \in PagePool(0..BatchPages) :
        p.bad \subseteq 1..p.n /\ (p.total = 0 => p.n = 0) }
BatchLaterPages ==
    { p \in PagePool({0}) : p.bad \subseteq 1..p.n }
        \cup {ApiFailed(Err("ConnectionError", FALSE, FALSE))}

BatchFeedEntries ==
    { RssEntry(<<"1", "v", "1">>, "new"), RssEntry(<<"2", "v", "1">>, "new"),
      BadEntry }

BatchIdle ==
    /\ batchKind = "none" /\ batchPages = <<>> /\ batchFeed = <<>>
    /\ batchResult = <<>> /\ batchPc = "idle"

BatchInit ==
    /\ batchKind \in {"api", "rss"}
    /\ batchPages \in (IF batchKind = "api"
                       THEN { <<f>> \o rest : f \in BatchFirstPages,
                                rest \in [1..(BatchPages - 1) -> BatchLaterPages] }
                       ELSE {<<>>})
    /\ batchFeed \in (IF batchKind = "rss"
                      THEN UNION { [1..n -> BatchFeedEntries] : n \in 0..MaxPapers }
                      ELSE {<<>>})
    /\ batchResult = <<>>
    /\ batchPc = "start"

BatchApi ==
    /\ batchPc = "start" /\ batchKind = "api"
    /\ batchResult' = _fetch_api_daterange_chunk(batchPages)
    /\ batchPc' = "done"
    /\ UNCHANGED <<batchKind, batchPages, batchFeed>>
    /\ BatchFrame

BatchRss ==
    /\ batchPc = "start" /\ batchKind = "rss"
    /\ batchResult' = ChunkReturn(fetch_rss_today(RssDoc(TRUE, batchFeed)), <<>>)
    /\ batchPc' = "done"
    /\ UNCHANGED <<batchKind, batchPages, batchFeed>>
    /\ BatchFrame

-----------------------------------------------------------------------------
(* ListSpec: ArxivListParser fed a stream of start tags, end tags and text.  *)
(* Text is a sequence of tokens.  The feeder opens listing items with <dt>   *)
(* and writes, inside item i, links to paper i and text made of the token i. *)

\* " ".join(text.split()): whitespace runs collapsed, none at either end.
RECURSIVE CollapseWs(_)
CollapseWs(s) ==
    LET t == StripWs(s)
    IN  IF Len(t) <= 1 THEN t
        ELSE IF t[1] \in Whitespace /\ t[2] \in Whitespace
             THEN CollapseWs(Tail(t))
        ELSE <<t[1]>> \o (IF t[2] \in Whitespace
                          THEN <<t[2]>> \o CollapseWs(Tail(Tail(t)))
                          ELSE CollapseWs(Tail(t)))

\* re.sub(r"^Title:\s*", "", text) and its "Authors:" twin: the label token
\* at the very start and the whitespace after it are removed.
RECURSIVE DropLeadingWs(_)
DropLeadingWs(s) ==
    IF Len(s) > 0 /\ s[1] \in Whitespace THEN DropLeadingWs(Tail(s)) ELSE s
RemoveLabel(label, s) ==
    IF Len(s) > 0 /\ s[1] = label THEN DropLeadingWs(Tail(s)) ELSE s

\* [a.strip() for a in text.split(",") if a.strip()]
RECURSIVE SplitCommas(_, _)
SplitCommas(s, cur) ==
    IF Len(s) = 0 THEN (IF StripWs(cur) = <<>> THEN <<>> ELSE <<StripWs(cur)>>)
    ELSE IF s[1] = ","
         THEN (IF StripWs(cur) = <<>> THEN <<>> ELSE <<StripWs(cur)>>)
              \o SplitCommas(Tail(s), <<>>)
    ELSE SplitCommas(Tail(s), Append(cur, s[1]))

\* self._current = {}: a key that is absent reads as the empty value through
\* every .get the class makes.
EmptyCurrent ==
    [arxiv_id |-> <<>>, title |-> <<>>, authors |-> <<>>, abstract |-> <<>>]

\* The record appended by handle_endtag.
ListedPaper(cur) ==
    [arxiv_id |-> make_paper(cur.arxiv_id, cur.title, "new").arxiv_id,
     title    |-> CollapseWs(cur.title),
     authors  |-> cur.authors,
     abstract |-> CollapseWs(cur.abstract)]

ItemToken(i) == <<"1", "2", "3", "4">>[i]

\* The start tags fed: [tag, class, href]; the anchor of item i points to
\* paper i.
StartTags(i) ==
    { [tag |-> "dt",   cls |-> "",                href |-> <<>>],
      [tag |-> "a",    cls |-> "",                href |-> <<"/abs/", ItemToken(i)>>],
      [tag |-> "span", cls |-> "descriptor",      href |-> <<>>],
      [tag |-> "div",  cls |-> "list-title",      href |-> <<>>],
      [tag |-> "div",  cls |-> "list-authors",    href |-> <<>>],
      [tag |-> "p",    cls |-> "mathjax",         href |-> <<>>],
      [tag |-> "span", cls |-> "primary-subject", href |-> <<>>] }
EndTags == {"div", "p", "span"}
Labels == {"Title:", "Authors:"}
DataTokens(i) == {ItemToken(i), " ", ","} \cup Labels

ListIdle ==
    /\ lp_papers = <<>> /\ _current = EmptyCurrent /\ _current_id = <<>>
    /\ _in_title = FALSE /\ _in_authors = FALSE /\ _in_abstract = FALSE
    /\ _in_subjects = FALSE /\ _buffer = <<>>
    /\ listItem = 0 /\ fedEvents = 0

\* ArxivListParser.__init__, before the first listing item.
ListInit ==
    /\ lp_papers = <<>> /\ _current = EmptyCurrent /\ _current_id = <<>>
    /\ _in_title = FALSE /\ _in_authors = FALSE /\ _in_abstract = FALSE
    /\ _in_subjects = FALSE /\ _buffer = <<>>
    /\ listItem = 1 /\ fedEvents = 0

handle_starttag ==
    /\ listItem >= 1 /\ fedEvents < MaxEvents
    /\ \E t \in StartTags(listItem) :
          /\ t.tag = "dt" => listItem < MaxItems
          /\ listItem' = IF t.tag = "dt" THEN listItem + 1 ELSE listItem
          /\ _current_id' = IF t.tag = "a" /\ Len(t.href) > 0 /\ t.href[1] = "/abs/"
                            THEN ArxivListParser_id(t.href) ELSE _current_id
          /\ _in_title' = (_in_title \/ (t.tag = "div" /\ t.cls = "list-title"))
          /\ _in_authors' = (_in_authors \/ (t.tag = "div" /\ t.cls = "list-authors"))
          /\ _in_abstract' = (_in_abstract \/ (t.tag = "p" /\ t.cls = "mathjax"))
          /\ _in_subjects' = (_in_subjects
                                \/ (t.tag = "span" /\ t.cls = "primary-subject"))
          /\ _buffer' = IF t.cls # "" THEN <<>> ELSE _buffer
    /\ fedEvents' = fedEvents + 1
    /\ UNCHANGED <<lp_papers, _current>>
    /\ ListFrame

handle_endtag ==
    /\ listItem >= 1 /\ fedEvents < MaxEvents
    /\ \E tag \in EndTags :
          LET closeTitle == tag = "div" /\ _in_title
              closeAuthors == tag = "div" /\ _in_authors
              closeAbstract == tag = "p" /\ _in_abstract
              c1 == IF closeTitle /\ _current_id # <<>>
                    THEN [_current EXCEPT
                             !.arxiv_id = _current_id,
                             !.title = RemoveLabel("Title:", StripWs(_buffer))]
                    ELSE _current
              c2 == IF closeAuthors
                    THEN [c1 EXCEPT
                             !.authors = SplitCommas(
                                 RemoveLabel("Authors:", StripWs(_buffer)), <<>>)]
                    ELSE c1
              c3 == IF closeAbstract
                    THEN [c2 EXCEPT !.abstract = StripWs(_buffer)]
                    ELSE c2
              emit == closeAbstract /\ c3.arxiv_id # <<>> /\ c3.title # <<>>
          IN  /\ _in_title' = (_in_title /\ ~closeTitle)
              /\ _in_authors' = (_in_authors /\ ~closeAuthors)
              /\ _in_abstract' = (_in_abstract /\ ~closeAbstract)
              /\ lp_papers' = IF emit THEN Append(lp_papers, ListedPaper(c3))
                              ELSE lp_papers
              /\ _current' = IF emit THEN EmptyCurrent ELSE c3
              /\ _current_id' = IF emit THEN <<>> ELSE _current_id
    /\ fedEvents' = fedEvents + 1
    /\ UNCHANGED <<_in_subjects, _buffer, listItem>>
    /\ ListFrame

handle_data ==
    /\ listItem >= 1 /\ fedEvents < MaxEvents
    /\ \E d \in DataTokens(listItem) :
          IF _in_title \/ _in_authors \/ _in_abstract \/ _in_subjects
          THEN /\ Len(_buffer) < MaxBuffer
               /\ _buffer' = Append(_buffer, d)
          ELSE UNCHANGED _buffer
    /\ fedEvents' = fedEvents + 1
    /\ UNCHANGED <<lp_papers, _current, _current_id, _in_title, _in_authors,
                   _in_abstract, _in_subjects, listItem>>
    /\ ListFrame

-----------------------------------------------------------------------------
(* NetSpec: build_network of build_profile.py.  Names, titles, abstracts,    *)
(* dates and identifiers are texts: sequences of one-character tokens.       *)

\* str.split(): the maximal runs of non-whitespace characters.
RECURSIVE SplitWs(_, _)
SplitWs(s, cur) ==
    IF Len(s) = 0 THEN (IF cur = <<>> THEN <<>> ELSE <<cur>>)
    ELSE IF s[1] \in Whitespace
         THEN (IF cur = <<>> THEN <<>> ELSE <<cur>>) \o SplitWs(Tail(s), <<>>)
    ELSE SplitWs(Tail(s), Append(cur, s[1]))

\* name.lower().strip() and set(name_lower.split())
NameLower(name) == StripWs(LowerText(name))
NameParts(name_lower) ==
    LET ws == SplitWs(name_lower, <<>>) IN {ws[k] : k \in 1..Len(ws)}

\* word.rstrip(".")
RECURSIVE RStripDot(_)
RStripDot(w) ==
    IF Len(w) > 0 /\ w[Len(w)] = "." THEN RStripDot(SubSeq(w, 1, Len(w) - 1))
    ELSE w

\* a.startswith(b)
StartsWith(a, b) == Len(b) <= Len(a) /\ SubSeq(a, 1, Len(b)) = b

_is_same_person(name1_lower, name1_parts, name2_lower, name2_parts) ==
    \/ name1_lower = name2_lower
    \/ /\ Cardinality(name1_parts) >= 2 /\ Cardinality(name2_parts) >= 2
       /\ LET parts1 == SplitWs(name1_lower, <<>>)
              parts2 == SplitWs(name2_lower, <<>>)
              first1 == RStripDot(parts1[1])
              first2 == RStripDot(parts2[1])
          IN  /\ parts1[Len(parts1)] = parts2[Len(parts2)]
              /\ \/ first1 = first2
                 \/ Len(first1) = 1 /\ StartsWith(first2, first1)
                 \/ Len(first2) = 1 /\ StartsWith(first1, first2)

_STOP_WORDS ==
    { <<"a">>, <<"a", "n">>, <<"t", "h", "e">>, <<"o", "f">>, <<"i", "n">>,
      <<"o", "n">>, <<"a", "t">>, <<"t", "o">>, <<"f", "o", "r">>,
      <<"a", "n", "d">>, <<"o", "r">>, <<"i", "s">>, <<"a", "r", "e">>,
      <<"w", "a", "s">>, <<"w", "e", "r", "e">>, <<"b", "e">>,
      <<"b", "e", "e", "n">>, <<"b", "e", "i", "n", "g">>,
      <<"w", "i", "t", "h">>, <<"f", "r", "o", "m">>, <<"b", "y">>,
      <<"a", "s">>, <<"i", "t">>, <<"i", "t", "s">>, <<"t", "h", "i", "s">>,
      <<"t", "h", "a", "t">>, <<"t", "h", "e", "s", "e">>,
      <<"t", "h", "o", "s", "e">>, <<"w", "e">>, <<"o", "u", "r">>,
      <<"u", "s">>, <<"t", "h", "e", "i", "r">>, <<"t", "h", "e", "y">>,
      <<"t", "h", "e", "m">>, <<"w", "h", "i", "c", "h">>,
      <<"w", "h", "a", "t">>, <<"h", "o", "w">>, <<"w", "h", "e", "n">>,
      <<"w", "h", "e", "r", "e">>, <<"w", "h", "o">>, <<"w", "i", "l", "l">>,
      <<"c", "a", "n">>, <<"m", "a", "y">>, <<"u", "s", "i", "n", "g">>,
      <<"v", "i", "a">>, <<"b", "e", "t", "w", "e", "e", "n">>,
      <<"i", "n", "t", "o">>, <<"t", "h", "r", "o", "u", "g", "h">>,
      <<"d", "u", "r", "i", "n", "g">>, <<"b", "e", "f", "o", "r", "e">>,
      <<"a", "f", "t", "e", "r">>, <<"a", "b", "o", "v", "e">>,
      <<"b", "e", "l", "o", "w">>, <<"u", "p">>, <<"d", "o", "w", "n">>,
      <<"n", "e", "w">>, <<"f", "i", "r", "s", "t">>, <<"t", "w", "o">>,
      <<"t", "h", "r", "e", "e">>, <<"o", "n", "e">>,
      <<"b", "a", "s", "e", "d">>, <<"s", "t", "u", "d", "y">>,
      <<"a", "n", "a", "l", "y", "s", "i", "s">>,
      <<"r", "e", "s", "u", "l", "t", "s">>, <<"d", "a", "t", "a">>,
      <<"m", "o", "d", "e", "l">>, <<"m", "e", "t", "h", "o", "d">>,
      <<"a", "p", "p", "r", "o", "a", "c", "h">>,
      <<"p", "a", "p", "e", "r">>, <<"s", "h", "o", "w">>,
      <<"f", "i", "n", "d">>, <<"a", "l", "s", "o">>, <<"t", "h", "a", "n">>,
      <<"m", "o", "r", "e">>, <<"m", "o", "s", "t">>, <<"n", "o", "t">>,
      <<"n", "o">>, <<"b", "u", "t">>, <<"i", "f">>,
      <<"a", "b", "o", "u", "t">>, <<"e", "a", "c", "h">>, <<"a", "l", "l">>,
      <<"b", "o", "t", "h">>, <<"d", "o">>, <<"d", "o", "e", "s">>,
      <<"d", "i", "d">>, <<"h", "a", "s">>, <<"h", "a", "v", "e">>,
      <<"h", "a", "d">>, <<"s", "u", "c", "h">>, <<"o", "n", "l", "y">>,
      <<"v", "e", "r", "y">>, <<"j", "u", "s", "t">>, <<"o", "v", "e", "r">>,
      <<"u", "n", "d", "e", "r">>, <<"t", "h", "e", "n">>, <<"s", "o">>,
      <<"w", "e", "l", "l">>, <<"h", "e", "r", "e">>,
      <<"t", "h", "e", "r", "e">>, <<"s", "o", "m", "e">>, <<"a", "n", "y">>,
      <<"o", "t", "h", "e", "r">> }

IsLetter(c) == \E k \in 1..26 : LowerChars[k] = c \/ UpperChars[k] = c
IsWordChar(c) == IsLetter(c) \/ IsDigit(c) \/ c = "-"

\* re.findall(r"[a-zA-Z][a-zA-Z0-9\-]+", text): a letter followed by at
\* least one word character, matched greedily from left to right.  Every
\* maximal run of word characters holds at most one match: from the first
\* letter of the run to the end of the run, when that is 2 characters or more.
RunStarts(s) ==
    SelectSeq([i \in 1..Len(s) |-> i],
              LAMBDA i : IsWordChar(s[i]) /\ (i = 1 \/ ~IsWordChar(s[i - 1])))
RunEnd(s, i) ==
    CHOOSE j \in i..Len(s) :
        /\ \A k \in i..j : IsWordChar(s[k])
        /\ (j = Len(s) \/ ~IsWordChar(s[j + 1]))
MatchInRun(s, i) ==
    LET j == RunEnd(s, i)
        letters == {k \in i..j : IsLetter(s[k])}
    IN  IF letters = {} THEN <<>>
        ELSE SubSeq(s, CHOOSE k \in letters : \A m \in letters : k <= m, j)
FindWords(s) ==
    LET starts == RunStarts(s)
    IN  SelectSeq([p \in 1..Len(starts) |-> MatchInRun(s, starts[p])],
                  LAMBDA w : Len(w) >= 2)

_extract_keywords(text) ==
    SelectSeq(FindWords(LowerText(text)),
              LAMBDA w : w \notin _STOP_WORDS /\ Len(w) > 2)

\* A Counter or dict as the sequence of its items [key, n] in insertion
\* order; counter[key] += amount inserts the key on its first use.
CounterAdd(counter, key, amount) ==
    IF \E i \in 1..Len(counter) : counter[i].key = key
    THEN LET i == CHOOSE i \in 1..Len(counter) : counter[i].key = key
         IN  [counter EXCEPT ![i].n = @ + amount]
    ELSE Append(counter, [key |-> key, n |-> amount])

\* counter[key] += amount for every key of keys, in order.  The result of
\* the loop in closed form: every item already present gains amount per
\* occurrence of its key, and the new keys follow in the order of their first
\* occurrence.
CounterUpdate(counter, keys, amount) ==
    LET Occ(k) == Cardinality({i \in 1..Len(keys) : keys[i] = k})
        fresh == SelectSeq([i \in 1..Len(keys) |-> i],
                     LAMBDA i : /\ \A j \in 1..Len(counter) : counter[j].key # keys[i]
                                /\ \A j \in 1..(i - 1) : keys[j] # keys[i])
    IN  [i \in 1..Len(counter) |->
            [counter[i] EXCEPT !.n = @ + amount * Occ(counter[i].key)]]
        \o [p \in 1..Len(fresh) |->
               [key |-> keys[fresh[p]], n |-> amount * Occ(keys[fresh[p]])]]

\* Mutant: among equal keys the later index goes first.
BucketLastFirst(keys, v) ==
    LET b == SelectSeq([i \in 1..Len(keys) |-> i], LAMBDA i : keys[i] = v)
    IN  [p \in 1..Len(b) |-> b[Len(b) + 1 - p]]

\* The indices whose key is v, in increasing order.
Bucket(keys, v) ==
    SelectSeq([i \in 1..Len(keys) |-> i], LAMBDA i : keys[i] = v)

\* sorted(..., reverse=True) is stable: the keys in descending order, and
\* among equal keys the earlier index first.
RECURSIVE BucketsDesc(_, _)
BucketsDesc(keys, vals) ==
    IF vals = {} THEN <<>>
    ELSE LET v == CHOOSE v \in vals : \A w \in vals : w <= v
         IN  Bucket(keys, v) \o BucketsDesc(keys, vals \ {v})

SortedIndices(n, keys) == BucketsDesc(keys, {keys[i] : i \in 1..n})

\* sorted(items, key=..., reverse=True), keys[i] being the key of items[i].
SortedDesc(items, keys) ==
    LET order == SortedIndices(Len(items), keys)
    IN  [p \in 1..Len(items) |-> items[order[p]]]

\* seq[:n]
Take(seq, n) == SubSeq(seq, 1, Min(n, Len(seq)))

\* Counter.most_common(n): the n items of greatest count, ties in insertion
\* order.
most_common(counter, n) ==
    Take(SortedDesc(counter, [i \in 1..Len(counter) |-> counter[i].n]), n)

\* round(v, 1) of a weight held in hundredths, as a number of tenths
\* (half to even).
round1(v) ==
    LET q == v \div 10
        r == v % 10
    IN  IF r > 5 \/ (r = 5 /\ q % 2 = 1) THEN q + 1 ELSE q

\* The year of a record: the four digits that start "published", else "20"
\* and the first two digits of an identifier shaped NNNN.; <<>> when neither.
PaperYear(paper) ==
    LET p == paper.published
        a == paper.arxiv_id
    IN  IF Len(p) >= 4 /\ AllDigits(SubSeq(p, 1, 4)) THEN SubSeq(p, 1, 4)
        ELSE IF Len(a) >= 5 /\ AllDigits(SubSeq(a, 1, 4)) /\ a[5] = "."
             THEN <<"2", "0">> \o SubSeq(a, 1, 2)
        ELSE <<>>

\* A co-author's entry after k more iterations of the author loop's body for
\* that name on one paper.
CountCoauthor(entry, k, paper, year) ==
    IF k = 0 THEN entry
    ELSE [entry EXCEPT
             !.count = @ + k,
             !.papers = @ \o [j \in 1..k |-> paper.arxiv_id],
             !.last_year = IF year # <<>> THEN Max(@, DigitsValue(year)) ELSE @]

\* The author loop of one paper, in closed form: the authors the fuzzy check
\* identifies with the user are skipped; every other author's entry is
\* created on first use (defaultdict) and counted once per occurrence.
author_loop(coauthors, authors, paper, year, user_lower) ==
    LET others == SelectSeq(authors,
                      LAMBDA a : ~_is_same_person(user_lower, NameParts(user_lower),
                                     NameLower(a), NameParts(NameLower(a))))
        Occ(name) == Cardinality({i \in 1..Len(others) : others[i] = name})
        fresh == SelectSeq([i \in 1..Len(others) |-> i],
                     LAMBDA i : /\ \A j \in 1..Len(coauthors) :
                                      coauthors[j].name # others[i]
                                /\ \A j \in 1..(i - 1) : others[j] # others[i])
    IN  [i \in 1..Len(coauthors) |->
            CountCoauthor(coauthors[i], Occ(coauthors[i].name), paper, year)]
        \o [p \in 1..Len(fresh) |->
               CountCoauthor([name |-> others[fresh[p]], count |-> 0,
                              last_year |-> 0, papers |-> <<>>],
                             Occ(others[fresh[p]]), paper, year)]

TitleWeight == 100
AbstractWeight == 30

\* Mutant: abstract words weigh as much as title words.
AddAbstractWordsAsTitle(topic_words, words) ==
    CounterUpdate(topic_words, words, TitleWeight)

\* for w in abstract_words: topic_words[w] += 0.3
AddAbstractWords(topic_words, words) ==
    CounterUpdate(topic_words, words, AbstractWeight)

\* The loop over the papers: the four accumulators after the last paper.
RECURSIVE paper_loop(_, _, _)
paper_loop(acc, ps, user_lower) ==
    IF ps = <<>> THEN acc
    ELSE LET paper == Head(ps)
             year == PaperYear(paper)
         IN  paper_loop(
                 [coauthors |-> author_loop(acc.coauthors, paper.authors, paper,
                                            year, user_lower),
                  topic_words |->
                      AddAbstractWords(
                          CounterUpdate(acc.topic_words,
                                        _extract_keywords(paper.title), TitleWeight),
                          _extract_keywords(paper.abstract)),
                  category_counts |->
                      CounterUpdate(acc.category_counts, paper.categories, 1),
                  year_counts |->
                      IF year # <<>> THEN CounterAdd(acc.year_counts, year, 1)
                      ELSE acc.year_counts],
                 Tail(ps), user_lower)

RankCap == 100
ActiveCap == 50
ActiveWindow == 3
TopicCap == 50
CategoryCap == 20
PaperIdCap == 10

\* sorted(year_counts.items()): by year text, ascending.
SortedYears(year_counts) ==
    LET desc == SortedDesc(year_counts,
                    [i \in 1..Len(year_counts) |-> DigitsValue(year_counts[i].key)])
    IN  [p \in 1..Len(desc) |-> desc[Len(desc) + 1 - p]]

build_network(ps, user, year_now) ==
    LET acc == paper_loop([coauthors |-> <<>>, topic_words |-> <<>>,
                           category_counts |-> <<>>, year_counts |-> <<>>],
                          ps, NameLower(user))
        ranked == SortedDesc(acc.coauthors,
                      [i \in 1..Len(acc.coauthors) |-> acc.coauthors[i].count])
        top == most_common(acc.topic_words, TopicCap)
    IN  [coauthors |->
             [i \in 1..Min(RankCap, Len(ranked)) |->
                 [ranked[i] EXCEPT !.papers = Take(@, PaperIdCap)]],
         coauthor_rank |->
             Take([i \in 1..Len(ranked) |-> ranked[i].name], RankCap),
         active_coauthors |->
             LET active == SelectSeq(ranked,
                               LAMBDA e : e.last_year >= year_now - ActiveWindow)
             IN  Take([i \in 1..Len(active) |-> active[i].name], ActiveCap),
         topic_keywords |->
             [i \in 1..Len(top) |-> [key |-> top[i].key, n |-> round1(top[i].n)]],
         active_categories |-> most_common(acc.category_counts, CategoryCap),
         publication_years |-> SortedYears(acc.year_counts)]

\* Input texts.
JaneDoe == <<"J", "a", "n", "e", " ", "D", "o", "e">>
JDoe == <<"J", ".", " ", "D", "o", "e">>
JohnDoe == <<"J", "o", "h", "n", " ", "D", "o", "e">>
JSmith == <<"J", ".", " ", "S", "m", "i", "t", "h">>
ARoe == <<"A", ".", " ", "R", "o", "e">>

\* The crowd: CrowdSize co-authors "x1", "x2", ... of one old paper whose
\* title is made of KeywordCrowd keywords "kw1", "kw2", ...
CrowdAuthor(k) == <<"x">> \o NatText(k)
RECURSIVE CrowdWords(_, _)
CrowdWords(lo, hi) ==
    IF lo > hi THEN <<>>
    ELSE IF lo = hi THEN <<" ", "k", "w">> \o NatText(lo)
    ELSE CrowdWords(lo, (lo + hi) \div 2) \o CrowdWords((lo + hi) \div 2 + 1, hi)
CrowdTitle(k) == CrowdWords(1, k)

CrowdPaper ==
    [authors |-> [k \in 1..CrowdSize |-> CrowdAuthor(k)],
     published |-> <<"2", "0", "1", "0", "-", "0", "5", "-", "0", "1">>, arxiv_id |-> <<"1", "0", "0", "5", ".", "1">>,
     title |-> CrowdTitle(KeywordCrowd), abstract |-> <<>>,
     categories |-> <<"a">>]

PaperPool ==
    { [authors |-> <<JaneDoe, JSmith>>,
       published |-> <<"2", "0", "2", "5", "-", "0", "1", "-", "0", "2">>, arxiv_id |-> <<"2", "5", "0", "1", ".", "1">>,
       title |-> <<"D", "a", "r", "k", " ", "m", "a", "t", "t", "e", "r", " ", "h", "a", "l", "o", "s", " ", "o", "f", " ", "t", "h", "e", " ", "k", "w", "1">>,
       abstract |-> <<"d", "a", "r", "k", " ", "h", "a", "l", "o", "s", " ", "a", "n", "d", " ", "M", "a", "t", "t", "e", "r">>,
       categories |-> <<"a", "b">>],
      [authors |-> <<JohnDoe, JSmith>>,
       published |-> <<"2", "0", "2", "0", "-", "0", "3", "-", "0", "4">>, arxiv_id |-> <<"2", "0", "0", "3", ".", "2">>,
       title |-> <<"H", "a", "l", "o", "s", " ", "i", "n", " ", "3", "D">>,
       abstract |-> <<>>,
       categories |-> <<"b">>],
      [authors |-> <<JDoe, ARoe>>,
       published |-> <<>>, arxiv_id |-> <<"2", "4", "0", "1", ".", "3">>,
       title |-> <<>>,
       abstract |-> <<"k", "w", "2", " ", "k", "w", "2", " ", "x", "-", "r", "a", "y">>,
       categories |-> <<>>],
      [authors |-> <<ARoe, JSmith>>,
       published |-> <<>>, arxiv_id |-> <<>>,
       title |-> <<"D", "a", "r", "k", " ", "d", "a", "r", "k">>,
       abstract |-> <<>>,
       categories |-> <<"a">>],
      CrowdPaper }

UserNames == {JaneDoe, ARoe}
CurrentYears == {2025, 2026}

NetIdle ==
    /\ net_papers = <<>> /\ user_name = <<>> /\ current_year = 0
    /\ network = <<>> /\ netPc = "idle"

NetInit ==
    /\ net_papers \in UNION { [1..n -> PaperPool] : n \in 0..MaxNetPapers }
    /\ user_name \in UserNames
    /\ current_year \in CurrentYears
    /\ network = <<>>
    /\ netPc = "start"

BuildNetwork ==
    /\ netPc = "start"
    /\ network' = build_network(net_papers, user_name, current_year)
    /\ netPc' = "done"
    /\ UNCHANGED <<net_papers, user_name, current_year>>
    /\ NetFrame

-----------------------------------------------------------------------------
(* PersonSpec: the fuzzy same-person check on a pair of names, called the    *)
(* way build_network calls it.                                               *)

NameTokens ==
    { <<"j", "a", "n", "e">>, <<"j", "o", "h", "n">>, <<"j", ".">>, <<"j">>,
      <<"d", "o", "e">>, <<"s", "m", "i", "t", "h">> }

\* " ".join(tokens)
RECURSIVE JoinTokens(_)
JoinTokens(ts) ==
    IF Len(ts) = 0 THEN <<>>
    ELSE IF Len(ts) = 1 THEN ts[1]
    ELSE ts[1] \o <<" ">> \o JoinTokens(Tail(ts))

NamePool ==
    { JoinTokens(ts) : ts \in UNION { [1..n -> NameTokens] : n \in 1..MaxNameTokens } }

PersonIdle ==
    /\ name1 = <<>> /\ name2 = <<>> /\ sameResult = FALSE /\ personPc = "idle"

PersonInit ==
    /\ name1 \in NamePool
    /\ name2 \in NamePool
    /\ sameResult = FALSE
    /\ personPc = "start"

SamePerson ==
    /\ personPc = "start"
    /\ sameResult' = _is_same_person(NameLower(name1), NameParts(NameLower(name1)),
                                     NameLower(name2), NameParts(NameLower(name2)))
    /\ personPc' = "done"
    /\ UNCHANGED <<name1, name2>>
    /\ PersonFrame

-----------------------------------------------------------------------------
(* ExpandSpec: expand_network_second_degree on the network build_profile     *)
(* built, one collaborator per step.                                         *)

NNew == <<"N", ".", " ", "N", "e", "w">>
MMore == <<"M", ".", " ", "M", "o", "r", "e">>
ManyAuthor(k) == <<"y">> \o NatText(k)

\* What search_author_papers returns for a collaborator, by the shape of the
\* answer: the collaborator's papers list the user, the last first-degree
\* co-author of the input, and people outside the first degree.
AuthoredPaper(authors) ==
    [authors |-> authors, published |-> <<>>, arxiv_id |-> <<>>,
     title |-> <<>>, abstract |-> <<>>, categories |-> <<>>]
SearchResult(shape, coauthor_name, user, last_first) ==
    CASE shape = "joint" ->
            <<AuthoredPaper(<<coauthor_name, user, NNew>>)>>
      [] shape = "circle" ->
            <<AuthoredPaper(<<coauthor_name, user, last_first, NNew>>),
              AuthoredPaper(<<NNew, coauthor_name, MMore>>)>>
      [] shape = "many" ->
            <<AuthoredPaper(<<coauthor_name>>
                            \o [k \in 1..CrowdSize |-> ManyAuthor(k)]),
              AuthoredPaper(<<coauthor_name, ManyAuthor(CrowdSize)>>)>>
SearchShapes == {"joint", "circle", "many"}

TopN == 10
SecondDegreePool == 200
SecondDegreeCap == 100

FetchEvent(name) == [type |-> "fetch", name |-> name]

\* The co-authors of the input records, in the order first met.
FirstDegreeOf(ps, user) ==
    LET co == paper_loop([coauthors |-> <<>>, topic_words |-> <<>>,
                          category_counts |-> <<>>, year_counts |-> <<>>],
                         ps, NameLower(user)).coauthors
    IN  [i \in 1..Len(co) |-> co[i].name]

\* The user's own records: those of the pool the user is an author of, and
\* one written with a crowd.
TeamPaper == [CrowdPaper EXCEPT !.authors = <<JaneDoe>> \o @]
ExpandPapers ==
    { p \in PaperPool : \E i \in 1..Len(p.authors) :
                            _is_same_person(NameLower(JaneDoe), NameParts(NameLower(JaneDoe)),
                                            NameLower(p.authors[i]),
                                            NameParts(NameLower(p.authors[i]))) }
    \cup {TeamPaper}

ExpandIdle ==
    /\ exp_first = <<>> /\ exp_user = <<>> /\ exp_shape = "" /\ exp_network = <<>>
    /\ top_coauthors = <<>> /\ exp_i = 0 /\ second_degree = <<>>
    /\ expTrace = <<>> /\ expPc = "idle"

\* build_profile after build_network returned a network with co-authors;
\* exp_first keeps the co-authors counted on the input records.
ExpandInit ==
    /\ exp_user = JaneDoe
    /\ \E ps \in UNION { [1..n -> ExpandPapers] : n \in 1..MaxExpandPapers } :
          /\ exp_first = FirstDegreeOf(ps, exp_user)
          /\ exp_network = build_network(ps, exp_user, 2026)
    /\ exp_first # <<>>
    /\ exp_shape \in SearchShapes
    /\ top_coauthors = <<>> /\ exp_i = 0 /\ second_degree = <<>>
    /\ expTrace = <<>> /\ expPc = "start"

ExpandStart ==
    /\ expPc = "start"
    /\ top_coauthors' = Take(exp_network.coauthor_rank, TopN)
    /\ exp_i' = 1
    /\ expPc' = "loop"
    /\ UNCHANGED <<exp_first, exp_user, exp_shape, exp_network, second_degree,
                   expTrace>>
    /\ ExpandFrame

\* The authors of the fetched papers that the fuzzy check does not identify
\* with the collaborator.
OtherAuthors(coauthor_papers, coauthor_name) ==
    LET authors == IF Len(coauthor_papers) = 1 THEN coauthor_papers[1].authors
                   ELSE coauthor_papers[1].authors \o coauthor_papers[2].authors
    IN  SelectSeq(authors,
            LAMBDA author :
                ~_is_same_person(LowerText(coauthor_name),
                                 NameParts(LowerText(coauthor_name)),
                                 NameLower(author), NameParts(NameLower(author))))

\* One iteration whose search succeeds: the counts, then the delay.
ExpandFetched ==
    /\ expPc = "loop" /\ exp_i <= Len(top_coauthors)
    /\ LET coauthor_name == top_coauthors[exp_i]
           coauthor_papers == SearchResult(exp_shape, coauthor_name, exp_user,
                                           exp_first[Len(exp_first)])
       IN  /\ second_degree' = CounterUpdate(second_degree,
                                   OtherAuthors(coauthor_papers, coauthor_name), 1)
           /\ expTrace' = expTrace \o <<FetchEvent(coauthor_name),
                                        DelayEvent(API_DELAY)>>
    /\ exp_i' = exp_i + 1
    /\ UNCHANGED <<exp_first, exp_user, exp_shape, exp_network, top_coauthors,
                   expPc>>
    /\ ExpandFrame

\* One iteration whose search raises: the except clause logs and goes on.
ExpandFailed ==
    /\ expPc = "loop" /\ exp_i <= Len(top_coauthors)
    /\ expTrace' = Append(expTrace, FetchEvent(top_coauthors[exp_i]))
    /\ exp_i' = exp_i + 1
    /\ UNCHANGED <<exp_first, exp_user, exp_shape, exp_network, top_coauthors,
                   second_degree, expPc>>
    /\ ExpandFrame

\* After the loop: first-degree names removed from the 200 most common,
\* the first 100 kept.
ExpandFinish ==
    /\ expPc = "loop" /\ exp_i > Len(top_coauthors)
    /\ LET rank == exp_network.coauthor_rank
           first_degree == {rank[i] : i \in 1..Len(rank)}
           second_only == SelectSeq(most_common(second_degree, SecondDegreePool),
                                    LAMBDA item : item.key \notin first_degree)
           kept == Take(second_only, SecondDegreeCap)
       IN  exp_network' =
               [k \in DOMAIN exp_network \cup {"second_degree", "second_degree_rank"} |->
                   IF k = "second_degree" THEN kept
                   ELSE IF k = "second_degree_rank"
                        THEN [i \in 1..Len(kept) |-> kept[i].key]
                   ELSE exp_network[k]]
    /\ expPc' = "done"
    /\ UNCHANGED <<exp_first, exp_user, exp_shape, top_coauthors, exp_i,
                   second_degree, expTrace>>
    /\ ExpandFrame

-----------------------------------------------------------------------------
(* PageSpec: the pagination loop of _fetch_api_daterange_chunk and of        *)
(* search_author_papers, one request per step, any response to each.         *)

PageLoops == {"chunk", "author"}

\* A delivered page: the opensearch:totalResults it reports (-1 when the
\* element is missing) and the number of its entries.
PageResponses == [total : -1..MaxTotal, n : 0..MaxPageEntries]

\* total = -1 stands for None.
ReportedTotal(root) == IF root.total = -1 THEN 0 ELSE root.total

\* The total the loop works with after a page, taken from every page.
TotalAfterEveryPage(total, root) == ReportedTotal(root)
\* if total is None: total = int(total_el.text) ...
TotalAfter(total, root) == IF total = -1 THEN ReportedTotal(root) ELSE total

\* while total is None or start < total  /  start < min(total, max_papers)
LoopBound(loop, total, max_papers) ==
    IF loop = "chunk" THEN total ELSE Min(total, max_papers)

\* One pass through the body of the while loop, given the page delivered.
page_step(loop, start, total, max_papers, root) ==
    LET tot == TotalAfter(total, root)
    IN  IF total = -1 /\ tot = 0 THEN [start |-> start, total |-> tot, pc |-> "returned"]
        ELSE IF root.n = 0 THEN [start |-> start, total |-> tot, pc |-> "returned"]
        ELSE [start |-> start + root.n, total |-> tot,
              pc |-> IF start + root.n < LoopBound(loop, tot, max_papers)
                     THEN "loop" ELSE "returned"]

PageIdle ==
    /\ pgLoop = "" /\ pg_max_papers = 0 /\ pg_start = 0 /\ pg_total = -1
    /\ pgReceived = 0 /\ pgRequests = <<>> /\ pgPages = <<>> /\ pgPc = "idle"

\* start = 0, total = None; max_papers is a parameter of search_author_papers.
PageInit ==
    /\ pgLoop \in PageLoops
    /\ pg_max_papers \in IF pgLoop = "chunk" THEN {0} ELSE 1..MaxTotal
    /\ pg_start = 0 /\ pg_total = -1
    /\ pgReceived = 0 /\ pgRequests = <<>> /\ pgPages = <<>> /\ pgPc = "loop"

\* A request that is answered: pgRequests keeps the offset asked for and the
\* number of entries received before it, pgPages the pages delivered.
PageDelivered ==
    /\ pgPc = "loop"
    /\ \E root \in PageResponses :
          LET after == page_step(pgLoop, pg_start, pg_total, pg_max_papers, root)
          IN  /\ pg_start' = after.start
              /\ pg_total' = after.total
              /\ pgPc' = after.pc
              /\ pgReceived' = pgReceived + root.n
              /\ pgPages' = Append(pgPages, root)
    /\ pgRequests' = Append(pgRequests, [start |-> pg_start, received |-> pgReceived])
    /\ UNCHANGED <<pgLoop, pg_max_papers>>
    /\ PageFrame

\* A request that is not answered: the fetch raises out of the loop.
PageFailed ==
    /\ pgPc = "loop"
    /\ pgRequests' = Append(pgRequests, [start |-> pg_start, received |-> pgReceived])
    /\ pgPc' = "raised"
    /\ UNCHANGED <<pgLoop, pg_max_papers, pg_start, pg_total, pgReceived, pgPages>>
    /\ PageFrame

-----------------------------------------------------------------------------
(* ReadSpec: the read-state file under mark_read_days and mark_unread_days.  *)

\* The pieces of a text between its dashes.
RECURSIVE SplitDash(_, _)
SplitDash(s, cur) ==
    IF s = <<>> THEN <<cur>>
    ELSE IF Head(s) = "-" THEN <<cur>> \o SplitDash(Tail(s), <<>>)
    ELSE SplitDash(Tail(s), Append(cur, Head(s)))

\* The calendar date (as YYYYMMDD) a text of three dash-separated numbers
\* names; 0 when it names none.
DateNamed(text) ==
    LET g == SplitDash(text, <<>>)
    IN  IF /\ Len(g) = 3
           /\ \A i \in 1..3 : g[i] # <<>> /\ AllDigits(g[i])
           /\ Len(g[2]) <= 2 /\ Len(g[3]) <= 2
           /\ ValidYmd(DigitsValue(g[1]) * 10000 + DigitsValue(g[2]) * 100
                       + DigitsValue(g[3]))
        THEN DigitsValue(g[1]) * 10000 + DigitsValue(g[2]) * 100 + DigitsValue(g[3])
        ELSE 0

\* datetime.strptime(date_text, "%Y-%m-%d") succeeds: %Y takes exactly four
\* digits, %m and %d one or two.
StrptimeAccepts(text) ==
    DateNamed(text) # 0 /\ Len(SplitDash(text, <<>>)[1]) = 4

\* dt.strftime("%Y-%m-%d"): the C library's %Y pads the year to four digits
\* on some platforms and writes it as it is on others; %m, %d are padded.
DateText(ymd, pad) ==
    (IF pad THEN PadText(ymd \div 10000, 4) ELSE NatText(ymd \div 10000))
    \o <<"-">> \o PadText((ymd \div 100) % 100, 2) \o <<"-">> \o PadText(ymd % 100, 2)

\* _normalize_date; <<>> stands for the ValueError (TypeError) it raises.
_normalize_date(date_text, pad) ==
    IF StrptimeAccepts(date_text) THEN DateText(DateNamed(date_text), pad) ELSE <<>>

\* A JSON value that is not a string.
NotAString == <<"#">>

\* String order, as sorted() compares: by code point, "-" before the digits.
CharRank(c) == IF c = "-" THEN 0 ELSE IF c = "#" THEN -1 ELSE DigitValue(c) + 1
TextLess(a, b) ==
    LET n == Min(Len(a), Len(b))
        diff == {i \in 1..n : a[i] # b[i]}
    IN  IF diff = {} THEN Len(a) < Len(b)
        ELSE LET i == CHOOSE k \in diff : \A m \in diff : k <= m
             IN  CharRank(a[i]) < CharRank(b[i])

\* sorted(S) for a set of texts.
SortedTexts(S) ==
    [k \in 1..Cardinality(S) |->
        CHOOSE t \in S : Cardinality({u \in S : TextLess(u, t)}) = k - 1]

ReadState(dates, last) == [read_dates |-> dates, last_read_date |-> last]
_read_state_default == ReadState(<<>>, <<>>)

MissingFile == [kind |-> "missing", read_dates |-> <<>>, last_read_date |-> <<>>]
CorruptFile == [kind |-> "corrupt", read_dates |-> <<>>, last_read_date |-> <<>>]
StateFile(state) ==
    [kind |-> "dict", read_dates |-> state.read_dates,
     last_read_date |-> state.last_read_date]

_load_read_state(file, pad) ==
    IF file.kind # "dict" THEN _read_state_default
    ELSE LET strs == SelectSeq(file.read_dates, LAMBDA d : d # NotAString)
             last == file.last_read_date
         IN  IF \E i \in 1..Len(strs) : _normalize_date(strs[i], pad) = <<>>
             THEN _read_state_default
             ELSE LET cleaned == SortedTexts({_normalize_date(strs[i], pad) :
                                                i \in 1..Len(strs)})
                  IN  IF last # <<>>
                      THEN IF last = NotAString \/ _normalize_date(last, pad) = <<>>
                           THEN _read_state_default
                           ELSE ReadState(cleaned, _normalize_date(last, pad))
                      ELSE IF cleaned # <<>>
                      THEN ReadState(cleaned, cleaned[Len(cleaned)])
                      ELSE ReadState(cleaned, <<>>)

LastOf(read_dates) ==
    IF read_dates # <<>> THEN read_dates[Len(read_dates)] ELSE <<>>

MarkResult(ok, file) == [ok |-> ok, file |-> file]

Normalized(dates, pad) == {_normalize_date(dates[i], pad) : i \in 1..Len(dates)}

mark_read_days(file, dates, pad) ==
    LET state == _load_read_state(file, pad)
    IN  IF <<>> \in Normalized(dates, pad) THEN MarkResult(FALSE, file)
        ELSE LET merged == {state.read_dates[i] : i \in 1..Len(state.read_dates)}
                               \cup Normalized(dates, pad)
                 read_dates == SortedTexts(merged)
             IN  MarkResult(TRUE, StateFile(ReadState(read_dates, LastOf(read_dates))))

mark_unread_days(file, dates, pad) ==
    LET state == _load_read_state(file, pad)
    IN  IF <<>> \in Normalized(dates, pad) THEN MarkResult(FALSE, file)
        ELSE LET remove_set == Normalized(dates, pad)
                 read_dates == SelectSeq(state.read_dates,
                                         LAMBDA d : d \notin remove_set)
             IN  MarkResult(TRUE, StateFile(ReadState(read_dates, LastOf(read_dates))))

\* Dates as a user types them: padded, unpadded, a year below 1000, and one
\* naming no calendar date.
DateInputs ==
    { DashedDate(2024, 5, 1), <<"2", "0", "2", "5", "-", "1", "-", "2">>,
      DashedDate(999, 12, 31), DashedDate(2025, 2, 30) }
DateLists == UNION { [1..n -> DateInputs] : n \in 1..MaxDates }

\* What the file may hold before the first call: nothing, no JSON object, or
\* an object whose entries need not be dates, sorted or distinct.
StoredEntries ==
    { DashedDate(2024, 5, 1), <<"2", "0", "2", "5", "-", "1", "-", "2">>,
      <<"b", "a", "d">>, NotAString }
StoredFiles ==
    {MissingFile, CorruptFile}
    \cup { StateFile(ReadState(ds, last)) :
             ds \in UNION { [1..n -> StoredEntries] : n \in 0..MaxDates },
             last \in {<<>>, DashedDate(2024, 5, 1), NotAString} }

NoCall == [op |-> "", dates |-> <<>>, ok |-> FALSE]

ReadIdle ==
    /\ read_state = MissingFile /\ pad_year = FALSE
    /\ rsMarked = {} /\ rsCall = NoCall /\ rsCalls = -1

\* rsMarked keeps the dates that are to be marked: those the loader reads
\* from the first file, then the given dates of every successful call.
ReadInit ==
    /\ read_state \in StoredFiles
    /\ pad_year \in BOOLEAN
    /\ LET state == _load_read_state(read_state, pad_year)
       IN  rsMarked = {DateNamed(state.read_dates[i]) : i \in 1..Len(state.read_dates)}
    /\ rsCall = NoCall
    /\ rsCalls = 0

MarkRead ==
    /\ rsCalls \in 0..(MaxCalls - 1)
    /\ \E dates \in DateLists :
          \E r \in {mark_read_days(read_state, dates, pad_year)} :
              /\ read_state' = r.file
              /\ rsCall' = [op |-> "read", dates |-> dates, ok |-> r.ok]
              /\ rsMarked' = IF r.ok
                             THEN rsMarked \cup {DateNamed(dates[i]) : i \in 1..Len(dates)}
                             ELSE rsMarked
    /\ rsCalls' = rsCalls + 1
    /\ UNCHANGED pad_year
    /\ ReadFrame

MarkUnread ==
    /\ rsCalls \in 0..(MaxCalls - 1)
    /\ \E dates \in DateLists :
          \E r \in {mark_unread_days(read_state, dates, pad_year)} :
              /\ read_state' = r.file
              /\ rsCall' = [op |-> "unread", dates |-> dates, ok |-> r.ok]
              /\ rsMarked' = IF r.ok
                             THEN rsMarked \ {DateNamed(dates[i]) : i \in 1..Len(dates)}
                             ELSE rsMarked
    /\ rsCalls' = rsCalls + 1
    /\ UNCHANGED pad_year
    /\ ReadFrame

-----------------------------------------------------------------------------
(* RestoreSpec: restore_storage on an archive of member names.  A name is a  *)
(* sequence of tokens, "arxiv-digest" standing for those twelve characters;  *)
(* a path is a sequence of segments, each a sequence of tokens.              *)

ArxivDigest == "arxiv-digest"

\* name.startswith(prefix)
NameStartsWith(name, prefix) ==
    Len(name) >= Len(prefix) /\ SubSeq(name, 1, Len(prefix)) = prefix

\* The segments of a name between its slashes.
RECURSIVE SplitSlash(_, _)
SplitSlash(name, cur) ==
    IF name = <<>> THEN <<cur>>
    ELSE IF Head(name) = "/" THEN <<cur>> \o SplitSlash(Tail(name), <<>>)
    ELSE SplitSlash(Tail(name), Append(cur, Head(name)))

\* Where os.path.join(dest, name) lands: ".." leaves the directory.
RECURSIVE ResolvePath(_, _)
ResolvePath(dir, segments) ==
    IF segments = <<>> THEN dir
    ELSE IF Head(segments) = <<"..">>
    THEN ResolvePath(IF dir = <<>> THEN dir ELSE SubSeq(dir, 1, Len(dir) - 1),
                     Tail(segments))
    ELSE IF Head(segments) = <<>> THEN ResolvePath(dir, Tail(segments))
    ELSE ResolvePath(Append(dir, Head(segments)), Tail(segments))

TargetOf(dest, name) == ResolvePath(dest, SplitSlash(name, <<>>))

InsideDir(path, dir) ==
    Len(path) >= Len(dir) /\ SubSeq(path, 1, Len(dir)) = dir

HomeDir == << <<"home">>, <<"u">> >>
OldRoot == HomeDir \o << <<".claude">>, <<ArxivDigest>> >>
\* The storage root: the default, or a directory given by --storage-dir or
\* ARXIV_DIGEST_HOME.
StorageRoots == { OldRoot, << <<"data">>, <<"digest">> >> }

\* member.name.startswith("arxiv-digest") or
\* member.name.startswith(".claude/arxiv-digest")
MemberAllowed(name) ==
    \/ NameStartsWith(name, <<ArxivDigest>>)
    \/ NameStartsWith(name, <<".claude", "/", ArxivDigest>>)

RestoreResult(ok, written) == [ok |-> ok, written |-> written]

\* tar.extractall(path=dest), member by member.  The default extraction
\* filter depends on the interpreter: "fully_trusted" writes every member
\* where its name leads, "data" raises at a member leading outside dest.
RECURSIVE extractall(_, _, _, _)
extractall(names, dest, filter, written) ==
    IF names = <<>> THEN RestoreResult(TRUE, written)
    ELSE IF filter = "data" /\ ~InsideDir(TargetOf(dest, Head(names)), dest)
    THEN RestoreResult(FALSE, written)
    ELSE extractall(Tail(names), dest, filter,
                    written \cup {TargetOf(dest, Head(names))})

restore_storage(root, names, filter) ==
    IF \E i \in 1..Len(names) : ~MemberAllowed(names[i])
    THEN RestoreResult(FALSE, {})
    ELSE LET uses_portable_root ==
                 \E i \in 1..Len(names) : NameStartsWith(names[i], <<ArxivDigest>>)
         IN  IF uses_portable_root
             THEN extractall(names, SubSeq(root, 1, Len(root) - 1), filter, {})
             ELSE extractall(names, HomeDir, filter, {})

MemberNames ==
    { <<ArxivDigest>>,
      <<ArxivDigest, "/", "f">>,
      <<ArxivDigest, "-x", "/", "f">>,
      <<ArxivDigest, "/", "..", "/", "f">>,
      <<".claude", "/", ArxivDigest, "/", "f">>,
      <<".claude", "/", ArxivDigest, "/", "..", "/", "..", "/", "..", "/", "f">>,
      <<"etc", "/", "f">> }
ExtractFilters == {"fully_trusted", "data"}

RestoreIdle ==
    /\ rs_root = <<>> /\ rs_members = <<>> /\ rs_filter = ""
    /\ rsWritten = {} /\ rsOk = FALSE /\ rsPc = "idle"

RestoreInit ==
    /\ rs_root \in StorageRoots
    /\ rs_members \in UNION { [1..n -> MemberNames] : n \in 0..MaxMembers }
    /\ rs_filter \in ExtractFilters
    /\ rsWritten = {} /\ rsOk = FALSE /\ rsPc = "call"

Restore ==
    /\ rsPc = "call"
    /\ \E r \in {restore_storage(rs_root, rs_members, rs_filter)} :
          rsWritten' = r.written /\ rsOk' = r.ok
    /\ rsPc' = "done"
    /\ UNCHANGED <<rs_root, rs_members, rs_filter>>
    /\ RestoreFrame

-----------------------------------------------------------------------------
(* Properties of deduplication, normalisation and filtering                 *)

\* deduplicate's key of a record: its identifier with the version stripped.
DedupKey(p) == StripVersion(p.arxiv_id)

\* The positions of s holding the first record of each key.
FirstOccurrences(s) ==
    {i \in 1..Len(s) : \A j \in 1..(i - 1) : DedupKey(s[j]) # DedupKey(s[i])}

IdsOf(s) == [i \in 1..Len(s) |-> s[i].arxiv_id]

\* C1: the output of deduplicate is the subsequence of its input made of the
\* first record of every version-stripped identifier: no two records of the
\* output share a stripped identifier, every stripped identifier of the input
\* is kept once, and the record kept is the first that carries it.
C1_DeduplicateKeepsFirst ==
    postPc = "unique" =>
        /\ papers = AtPositions(fetched, FirstOccurrences(fetched), 1)
        /\ \A i, j \in 1..Len(papers) :
               i # j => DedupKey(papers[i]) # DedupKey(papers[j])
        /\ \A i \in 1..Len(fetched) :
               \E k \in 1..Len(papers) :
                   /\ DedupKey(papers[k]) = DedupKey(fetched[i])
                   /\ \E f \in FirstOccurrences(fetched) :
                          f <= i /\ papers[k] = fetched[f]

\* C1 witness: two listing records that differ only in version suffix; the
\* first is kept, the second dropped.
C1_Witness ==
    /\ postPc = "unique"
    /\ source = "html"
    /\ IdsOf(fetched) = << <<"1", "v", "1">>, <<"1", "v", "2">> >>
    /\ papers = <<fetched[1]>>

\* C2: every record fetch_papers returns, whichever source produced it, has an
\* identifier without a trailing version suffix v<digits> (so records
\* "1v1" and "1v2" come out as one record with identifier "1").
C2_NoVersionSuffixInOutput ==
    postPc = "done" =>
        \A i \in 1..Len(papers) : ~HasVersionSuffix(papers[i].arxiv_id)

\* C3: stripping the version is idempotent: stripping an identifier twice
\* gives what stripping it once gives.
C3_NormalizeIdempotent ==
    idPc = "twice" => y = StripVersion(x)

-----------------------------------------------------------------------------
(* Properties of fetch_url                                                  *)

\* A failure counts as a name-resolution failure when it carries a resolver
\* error or its text holds a resolver-failure phrase.
DiagnosedNameResolution(e) ==
    e.cls = "gaierror" \/ (e.cls \in {"URLError", "HTTPError"} /\ e.gai) \/ e.marker

\* The alternate host exists for export.arxiv.org URLs under /api/query only.
HasAlternate ==
    url.netloc = "export.arxiv.org" /\ Len(url.path) >= 1 /\ url.path[1] = "/api/query"
Alternate == [url EXCEPT !.netloc = "arxiv.org"]

AttemptIdx == {i \in 1..Len(urlTrace) : urlTrace[i].type = "attempt"}
AttemptsOn(u) == {i \in AttemptIdx : urlTrace[i].url = u}
AttemptsOnBefore(u, n) == {i \in AttemptsOn(u) : i < n}
AlternateAttempts == IF HasAlternate THEN AttemptsOn(Alternate) ELSE {}

\* The attempts on u made before position n are finished: the budget of
\* retries + 1 is used up, or the last one failed with a name-resolution
\* failure (the candidate was abandoned).
FinishedBefore(u, n) ==
    LET A == AttemptsOnBefore(u, n)
    IN  \/ Cardinality(A) = retries + 1
        \/ /\ A # {}
           /\ LET last == CHOOSE i \in A : \A j \in A : j <= i
              IN  urlTrace[last].out = "fail"
                  /\ DiagnosedNameResolution(urlTrace[last].err)

-----------------------------------------------------------------------------
(* Properties of fetch_papers and fetch_api_daterange                       *)

EventsOfType(t) == {i \in 1..Len(fpTrace) : fpTrace[i].type = t}
HtmlRequested == EventsOfType("html") # {}
PrimaryEvents ==
    EventsOfType("rss") \cup EventsOfType("request") \cup EventsOfType("chunk")

\* C5: in today and daterange mode the HTML listing is requested exactly when
\* the primary source returned no record or raised, page "new" after the feed
\* and page "recent" after the query API, and only after the primary source
\* was tried; when the primary source returned a record, no HTML request is
\* made and every record of the result is one of the primary source's.
C5_HtmlFallbackIffPrimaryEmpty ==
    mode \in {"today", "daterange"} =>
        /\ \A h \in EventsOfType("html") :
              /\ primary.done
              /\ primary.raised \/ primary.papers = <<>>
              /\ fpTrace[h].page = (IF mode = "today" THEN "new" ELSE "recent")
              /\ \A i \in PrimaryEvents : i < h
              /\ mode = "today" => EventsOfType("rss") # {}
              /\ h = Len(fpTrace)
        /\ fpPc = "returned" =>
              /\ primary.done
              /\ (primary.raised \/ primary.papers = <<>>) => HtmlRequested
              /\ (~primary.raised /\ primary.papers # <<>>) =>
                    /\ ~HtmlRequested
                    /\ \A i \in 1..Len(fpResult) :
                          /\ \E j \in 1..Len(primary.papers) :
                                fpResult[i] = primary.papers[j]
                          /\ fpResult[i].title # "html"

\* The query API raised, the "recent" listing was fetched and gave the result.
C5_Witness ==
    /\ fpPc = "returned" /\ mode = "daterange"
    /\ primary.raised /\ EventsOfType("chunk") # {}
    /\ HtmlRequested /\ fpTrace[Len(fpTrace)].page = "recent"
    /\ fpResult # <<>>

\* Every fetch of the run failed: no feed document parsed, no chunk fetch got
\* a page, no listing page arrived.
AllFetchesFailed ==
    \A i \in 1..Len(fpTrace) :
        /\ fpTrace[i].type = "rss" => ~fpTrace[i].ok
        /\ fpTrace[i].type = "chunk" =>
              fpTrace[i].err # NoErr /\ fpTrace[i].requests = 1
        /\ fpTrace[i].type = "html" => ~fpTrace[i].ok

\* C6: no exception leaves fetch_papers, in any of the three modes, and when
\* every fetch failed the list returned is empty.
C6_FetchPapersNeverRaises ==
    /\ fpPc \in {"idle", "start", "api", "fallback", "post", "returned"}
    /\ (fpPc = "returned" /\ AllFetchesFailed) => fpResult = <<>>

\* A daterange run in which a chunk fetch failed, then the fallback listing
\* failed as well, and the empty list was returned.
C6_Witness ==
    /\ fpPc = "returned" /\ mode = "daterange"
    /\ AllFetchesFailed
    /\ EventsOfType("chunk") # {} /\ HtmlRequested
    /\ fpResult = <<>>

\* The chunk fetches of the run, in the order they were made.
ChunkLog == SelectSeq(fpTrace, LAMBDA e : e.type = "chunk")

RECURSIVE PapersOfReturned(_)
PapersOfReturned(log) ==
    IF log = <<>> THEN <<>>
    ELSE (IF Head(log).err = NoErr THEN Head(log).papers ELSE <<>>)
         \o PapersOfReturned(Tail(log))

\* C7: the chunks are requested category by category, chunk by chunk.  After
\* a chunk failure not diagnosed as name-resolution the run goes on: the next
\* chunk or category is requested, and a run that ends without raising has
\* requested every chunk of every category and returns the records of the
\* chunks that succeeded, in order.  A chunk failure diagnosed as
\* name-resolution is the last request of the run, no delay follows it, and
\* the failure is raised to the caller.
C7_ChunkFailureSkipOrAbort ==
    mode = "daterange" =>
        LET log == ChunkLog
            n == Len(total_chunks)
        IN  /\ \A j \in 1..Len(log) :
                  /\ log[j].cat = ((j - 1) \div n) + 1
                  /\ log[j].chunk = ((j - 1) % n) + 1
            /\ \A j \in 1..Len(log) :
                  (log[j].err # NoErr /\ ~DiagnosedNameResolution(log[j].err)) =>
                      /\ j = Len(log) => ~primary.raised
                      /\ j = Len(log) =>
                            (fpPc = "api" \/ j = n * Len(categories))
            /\ \A j \in 1..Len(log) :
                  (log[j].err # NoErr /\ DiagnosedNameResolution(log[j].err)) =>
                      /\ j = Len(log)
                      /\ fpPc # "api"
                      /\ primary.raised
                      /\ DiagnosedNameResolution(primary.err)
                      /\ EventsOfType("delay") \cup EventsOfType("request")
                            \subseteq 1..(CHOOSE i \in EventsOfType("chunk") :
                                              \A k \in EventsOfType("chunk") : k <= i)
            /\ (primary.done /\ ~primary.raised) =>
                  /\ Len(log) = n * Len(categories)
                  /\ primary.papers = PapersOfReturned(log)
            /\ (primary.raised /\ n > 0) =>
                  /\ log # <<>>
                  /\ DiagnosedNameResolution(log[Len(log)].err)

\* A chunk of the first category failed and was skipped, a chunk of a later
\* category returned records, and the run returned them.
C7_Witness ==
    /\ mode = "daterange" /\ fpPc = "returned"
    /\ ~primary.raised /\ primary.papers # <<>>
    /\ \E j, k \in 1..Len(ChunkLog) :
          /\ j < k
          /\ ChunkLog[j].err # NoErr
          /\ ~DiagnosedNameResolution(ChunkLog[j].err)
          /\ ChunkLog[k].cat > ChunkLog[j].cat
          /\ ChunkLog[k].err = NoErr /\ ChunkLog[k].papers # <<>>

-----------------------------------------------------------------------------
(* Properties of _build_date_chunks                                         *)

ChunkSpan(c) == strptime(c[2]) - strptime(c[1]) + 1

\* C10: for valid dates in either order and any chunk_days, the call returns
\* chunks that start at the earlier date, end at the later date, follow one
\* another day after day without gap or overlap, span at most
\* max(1, chunk_days) days each and exactly that many but for the last;
\* 20250101..20250120 by 7 gives 3 chunks.
C10_ChunksCoverSpan ==
    chunkPc = "done" =>
        LET cs == chunkResult.chunks
            n == Len(cs)
            cd == Max(1, chunk_days)
        IN  /\ chunkResult.raised = ""
            /\ n >= 1
            /\ strptime(cs[1][1]) = Min(strptime(date_from), strptime(date_to))
            /\ strptime(cs[n][2]) = Max(strptime(date_from), strptime(date_to))
            /\ \A i \in 1..n :
                   /\ ValidYmd(cs[i][1]) /\ ValidYmd(cs[i][2])
                   /\ ChunkSpan(cs[i]) >= 1 /\ ChunkSpan(cs[i]) <= cd
            /\ \A i \in 1..(n - 1) :
                   /\ ChunkSpan(cs[i]) = cd
                   /\ strptime(cs[i + 1][1]) = strptime(cs[i][2]) + 1
            /\ (date_from = 20250101 /\ date_to = 20250120 /\ chunk_days = 7)
                   => n = 3

-----------------------------------------------------------------------------
(* Properties of parse_period                                               *)

\* A token YYYY-MM-DD names a calendar date.
RealDate(tok) ==
    /\ Len(tok) = 10 /\ tok[5] = "-" /\ tok[8] = "-"
    /\ AllDigits(RemoveDashes(tok))
    /\ ValidYmd(DigitsValue(RemoveDashes(tok)))

MonthYears == {2024, 2025, 9999}

\* C11: a range of two real dates is returned as that daterange and a range
\* with a token naming no date is not returned as a daterange; "YYYY-MM" for
\* each month 01..12 is returned as the daterange from the month's first day
\* to its last calendar day; "today" is returned as ("today", "", "").
C11_ParsePeriodTable ==
    ppPc = "done" =>
        /\ \A a, b \in DateTokens :
              period = a \o <<":">> \o b =>
                  IF RealDate(a) /\ RealDate(b)
                  THEN ppResult = PeriodReturn("daterange", RemoveDashes(a),
                                               RemoveDashes(b))
                  ELSE ~(ppResult.raised = "" /\ ppResult.mode = "daterange")
        /\ \A yr \in MonthYears, mo \in 1..12 :
              period = PadText(yr, 4) \o <<"-">> \o PadText(mo, 2) =>
                  ppResult = PeriodReturn("daterange",
                      YmdText(yr * 10000 + mo * 100 + 1),
                      YmdText(yr * 10000 + mo * 100 + DaysInMonth(yr, mo)))
        /\ period = <<"t", "o", "d", "a", "y">> =>
              ppResult = PeriodReturn("today", <<>>, <<>>)

\* Day counts written with 1 to 3 digits.
DayCounts ==
    { ds \in SeqsUpTo({"0", "1", "3", "9"}, MaxDayDigits) : Len(ds) \in 1..3 }

\* C12 as stated: "<N>d" gives the daterange that starts exactly N days
\* before today and ends today, for every N of 1 to 3 digits.
C12_DaysBackExact ==
    ppPc = "done" =>
        \A ds \in DayCounts :
            period = ds \o <<"d">> =>
                /\ ppResult.raised = "" /\ ppResult.mode = "daterange"
                /\ ppResult.to = YmdText(now)
                /\ ValidYmd(DigitsValue(ppResult.from))
                /\ strptime(DigitsValue(ppResult.from))
                       = strptime(now) - DigitsValue(ds)

\* C12: "<N>d" gives the daterange that ends today and starts N days before
\* today, one day before when N is 0.
C12_DaysBackClamped ==
    ppPc = "done" =>
        \A ds \in DayCounts :
            period = ds \o <<"d">> =>
                /\ ppResult.raised = "" /\ ppResult.mode = "daterange"
                /\ ppResult.to = YmdText(now)
                /\ ValidYmd(DigitsValue(ppResult.from))
                /\ strptime(DigitsValue(ppResult.from))
                       = strptime(now)
                         - (IF DigitsValue(ds) = 0 THEN 1 ELSE DigitsValue(ds))

\* "0d" was parsed: the range starts the day before today.
C12_Witness ==
    /\ ppPc = "done" /\ period = <<"0", "d">> /\ now = 20240301
    /\ ppResult = PeriodReturn("daterange", YmdText(20240229), YmdText(20240301))

\* The forms of the period table, on the text stripped and lowercased.
Recognised(p) ==
    \/ p \in { <<"t", "o", "d", "a", "y">>, <<"w", "e", "e", "k">>,
               <<"p", "a", "s", "t", "w", "e", "e", "k">>, <<"m", "o", "n", "t", "h">>,
               <<"p", "a", "s", "t", "m", "o", "n", "t", "h">>,
               <<"r", "e", "c", "e", "n", "t">> }
    \/ \E ds \in DayCounts : p = ds \o <<"d">>
    \/ RealDate(p)
    \/ /\ Cardinality(ColonPositions(p)) = 1
       /\ RealDate(StripWs(BeforeColon(p))) /\ RealDate(StripWs(AfterColon(p)))
    \/ \E yr \in MonthYears, mo \in 1..12 :
          p = PadText(yr, 4) \o <<"-">> \o PadText(mo, 2)

\* C13: parse_period returns for every input, with a mode among today,
\* daterange and html_page, and an input of no recognised form is returned
\* as ("html_page", the input, "").
C13_ParsePeriodTotal ==
    ppPc = "done" =>
        /\ ppResult.raised = ""
        /\ ppResult.mode \in Modes
        /\ ~Recognised(LowerText(StripWs(period))) =>
              ppResult = PeriodReturn("html_page", LowerText(StripWs(period)), <<>>)

-----------------------------------------------------------------------------
(* Properties of the delays between API requests                            *)

\* The chunk fetch a request event belongs to: the first chunk event after it.
ChunkOfRequest(i) ==
    fpTrace[CHOOSE k \in EventsOfType("chunk") :
                /\ k > i
                /\ \A m \in EventsOfType("chunk") : m > i => k <= m]

\* What a request asks for: category name, chunk and start offset.
RequestKey(i) ==
    <<categories[ChunkOfRequest(i).cat], ChunkOfRequest(i).chunk, fpTrace[i].start>>

\* C14: between every two consecutive API requests that ask for different
\* things (another page, another chunk, another category) a delay of
\* API_DELAY is taken, whether the earlier request succeeded or failed.
C14_DelayBetweenRequests ==
    \A i, j \in EventsOfType("request") :
        (/\ i < j
         /\ \A m \in EventsOfType("request") : ~(i < m /\ m < j)
         /\ RequestKey(i) # RequestKey(j))
        => \E k \in (i + 1)..(j - 1) :
              fpTrace[k].type = "delay" /\ fpTrace[k].tenths = API_DELAY

-----------------------------------------------------------------------------
(* Properties of a batch with malformed entries                              *)

RECURSIVE EntriesBefore(_)
EntriesBefore(i) ==
    IF i <= 1 THEN 0 ELSE EntriesBefore(i - 1) + batchPages[i - 1].n

\* The pages the chunk fetch asked for, by the requests it made.
PagesRequested == Len(batchResult.events) -
    Cardinality({i \in 1..Len(batchResult.events) :
                    batchResult.events[i].type = "delay"})
RequestStarts ==
    LET reqs == SelectSeq(batchResult.events, LAMBDA e : e.type = "request")
    IN  [i \in 1..Len(reqs) |-> reqs[i].start]

RECURSIVE WellFormedOfPages(_, _)
WellFormedOfPages(i, last) ==
    IF i > last THEN <<>>
    ELSE LET p == batchPages[i]
             keep == SelectSeq([k \in 1..p.n |-> k], LAMBDA k : k \notin p.bad)
         IN  [j \in 1..Len(keep) |->
                 _parse_api_entry(ApiEntry(EntriesBefore(i) + keep[j]))]
             \o WellFormedOfPages(i + 1, last)

WellFormedOfFeed ==
    LET keep == SelectSeq(batchFeed, LAMBDA e : e # BadEntry)
    IN  [j \in 1..Len(keep) |-> _parse_rss_entry(keep[j])]

\* C15: an entry that cannot be parsed raises nothing out of its batch, the
\* records of the other entries come back in their order, and in the paginated
\* fetch every page is requested at the offset that counts all the entries
\* received so far, the malformed ones included.
C15_MalformedEntrySkipped ==
    batchPc = "done" =>
        /\ batchKind = "rss" =>
              /\ batchResult.err = NoErr
              /\ batchResult.papers = WellFormedOfFeed
        /\ batchKind = "api" =>
              /\ batchResult.err # NoErr =>
                    /\ PagesRequested \in 1..Len(batchPages)
                    /\ batchPages[PagesRequested].err = batchResult.err
              /\ batchResult.err = NoErr =>
                    batchResult.papers = WellFormedOfPages(1, PagesRequested)
              /\ RequestStarts = [i \in 1..PagesRequested |-> EntriesBefore(i)]

\* A first page whose first entry is malformed and second well-formed, then
\* a second page requested at offset 2 whose entry is returned as well.
C15_Witness ==
    /\ batchPc = "done" /\ batchKind = "api"
    /\ batchPages[1].n = 2 /\ batchPages[1].bad = {1}
    /\ batchResult.err = NoErr
    /\ RequestStarts = <<0, 2>>
    /\ Len(batchResult.papers) = 2

-----------------------------------------------------------------------------
(* Properties of ArxivListParser                                             *)

\* The text tokens of a record other than whitespace.
RecordTokens(r) ==
    {r.title[k] : k \in 1..Len(r.title)}
        \cup {r.abstract[k] : k \in 1..Len(r.abstract)}
        \cup UNION {{r.authors[a][k] : k \in 1..Len(r.authors[a])} :
                        a \in 1..Len(r.authors)}

\* C16: a record is appended exactly when an abstract block closes with an
\* identifier and a non-empty title held, every abstract-block close leaves
\* the per-item state empty, and the title, authors and abstract of every
\* record come from the listing item of its identifier.
AbstractCloses == _in_abstract /\ ~_in_abstract'
C16_ListParserEmission ==
    /\ [][ /\ (lp_papers' # lp_papers) <=>
                (AbstractCloses /\ _current.arxiv_id # <<>> /\ _current.title # <<>>)
           /\ AbstractCloses => (_current' = EmptyCurrent /\ _current_id' = <<>>) ]_vars
    /\ [](\A i \in 1..Len(lp_papers) :
            RecordTokens(lp_papers[i]) \subseteq
                {lp_papers[i].arxiv_id[1], " ", ","} \cup Labels)


-----------------------------------------------------------------------------
(* Properties of build_network                                               *)

\* The fuzzy check between the user's name and an author name, as the author
\* loop applies it.
SameAsUser(name) ==
    _is_same_person(NameLower(user_name), NameParts(NameLower(user_name)),
                    NameLower(name), NameParts(NameLower(name)))

\* All author names of the input, record by record.
RECURSIVE AuthorsUpTo(_)
AuthorsUpTo(i) ==
    IF i = 0 THEN <<>> ELSE AuthorsUpTo(i - 1) \o net_papers[i].authors
AllAuthors == AuthorsUpTo(Len(net_papers))

Occurrences(seq, v) == Cardinality({k \in 1..Len(seq) : seq[k] = v})

\* Occurrences of name as an author of the records that have the user among
\* their authors.
RECURSIVE SharedUpTo(_, _)
SharedUpTo(name, i) ==
    IF i = 0 THEN 0
    ELSE SharedUpTo(name, i - 1)
         + (IF \E k \in 1..Len(net_papers[i].authors) :
                   SameAsUser(net_papers[i].authors[k])
            THEN Occurrences(net_papers[i].authors, name) ELSE 0)

RankNames == {network.coauthor_rank[i] : i \in 1..Len(network.coauthor_rank)}
CoauthorKeys == {network.coauthors[i].name : i \in 1..Len(network.coauthors)}

\* C17: a record none of whose authors is identified with the user adds
\* nothing to any co-author count (the count of a co-author is the number of
\* times the name is an author of a record the user is an author of), and no
\* name the fuzzy check identifies with the user is a key of coauthors or a
\* member of coauthor_rank.
C17_OnlyUserRecordsCount ==
    netPc = "done" =>
        /\ \A i \in 1..Len(network.coauthors) :
              network.coauthors[i].count
                  = SharedUpTo(network.coauthors[i].name, Len(net_papers))
        /\ \A name \in RankNames \cup CoauthorKeys : ~SameAsUser(name)

\* The co-authors of the input: the author names the fuzzy check does not
\* identify with the user; their counts and first positions in the input.
InputCoauthors ==
    {AllAuthors[k] : k \in {j \in 1..Len(AllAuthors) : ~SameAsUser(AllAuthors[j])}}
FirstSeen(name) ==
    CHOOSE k \in 1..Len(AllAuthors) :
        /\ AllAuthors[k] = name
        /\ \A j \in 1..(k - 1) : AllAuthors[j] # name

\* C18: coauthor_rank is ordered by count, non-increasing; among equal counts
\* the name met first in the input comes first; it holds the top RankCap
\* names and no more; the keys of coauthors are the names of coauthor_rank;
\* and building the network again from the same input gives the same rank.
C18_RankOrder ==
    netPc = "done" =>
        LET rank == network.coauthor_rank
            cnt == [i \in 1..Len(rank) |-> Occurrences(AllAuthors, rank[i])]
            seen == [i \in 1..Len(rank) |-> FirstSeen(rank[i])]
        IN  /\ \A i \in 1..(Len(rank) - 1) :
                  \/ cnt[i] > cnt[i + 1]
                  \/ cnt[i] = cnt[i + 1] /\ seen[i] < seen[i + 1]
            /\ RankNames \subseteq InputCoauthors
            /\ Len(rank) = Min(RankCap, Cardinality(InputCoauthors))
            /\ \A name \in InputCoauthors \ RankNames :
                  /\ Len(rank) = RankCap
                  /\ \/ Occurrences(AllAuthors, name) < cnt[RankCap]
                     \/ /\ Occurrences(AllAuthors, name) = cnt[RankCap]
                        /\ FirstSeen(name) > seen[RankCap]
            /\ CoauthorKeys = RankNames
            /\ Len(network.coauthors) = Len(rank)
            /\ build_network(net_papers, user_name, current_year).coauthor_rank
                   = rank

\* More co-authors than the cap, with equal counts on both sides of the cut.
C18_Witness ==
    /\ netPc = "done"
    /\ Cardinality(InputCoauthors) > RankCap
    /\ Len(network.coauthor_rank) = RankCap
    /\ \E name \in InputCoauthors \ RankNames :
           Occurrences(AllAuthors, name)
               = Occurrences(AllAuthors, network.coauthor_rank[RankCap])

\* The most recent year shared with a co-author: the greatest year of the
\* records that list the name, 0 when none of them has a year.
RECURSIVE LastYearUpTo(_, _)
LastYearUpTo(name, i) ==
    IF i = 0 THEN 0
    ELSE LET p == net_papers[i]
         IN  IF Occurrences(p.authors, name) > 0 /\ PaperYear(p) # <<>>
             THEN Max(LastYearUpTo(name, i - 1), DigitsValue(PaperYear(p)))
             ELSE LastYearUpTo(name, i - 1)

\* C19: every name of active_coauthors is in the returned coauthor_rank and a
\* key of the returned coauthors, shared a record with the user in the last
\* ActiveWindow years, stands in the order of coauthor_rank, and there are at
\* most ActiveCap of them.
C19_ActiveWithinRank ==
    netPc = "done" =>
        LET active == network.active_coauthors
            rank == network.coauthor_rank
            pos == [i \in 1..Len(active) |->
                       IF active[i] \in RankNames
                       THEN CHOOSE k \in 1..Len(rank) : rank[k] = active[i]
                       ELSE 0]
        IN  /\ \A i \in 1..Len(active) :
                  /\ active[i] \in RankNames
                  /\ active[i] \in CoauthorKeys
                  /\ LastYearUpTo(active[i], Len(net_papers))
                         >= current_year - ActiveWindow
            /\ \A i \in 1..(Len(active) - 1) : pos[i] < pos[i + 1]
            /\ Len(active) <= ActiveCap

\* The tokens of all titles and of all abstracts, record by record.
RECURSIVE WordsUpTo(_, _)
WordsUpTo(field, i) ==
    IF i = 0 THEN <<>>
    ELSE WordsUpTo(field, i - 1) \o FindWords(LowerText(net_papers[i][field]))

IsKeyword(w) == w = LowerText(w) /\ w \notin _STOP_WORDS /\ Len(w) > 2

\* C20: the weight of a keyword, in tenths, is 10 per occurrence in a title
\* plus 3 per occurrence in an abstract; only lowercase tokens that are not
\* stop words and have more than 2 characters are keywords; topic_keywords
\* holds at most TopicCap of them, and no keyword left out weighs more than
\* one that is in.
C20_KeywordWeights ==
    netPc = "done" =>
        LET titles == WordsUpTo("title", Len(net_papers))
            abstracts == WordsUpTo("abstract", Len(net_papers))
            all == {w \in {titles[k] : k \in 1..Len(titles)}
                            \cup {abstracts[k] : k \in 1..Len(abstracts)} :
                        IsKeyword(w)}
            Weight(w) == 10 * Occurrences(titles, w) + 3 * Occurrences(abstracts, w)
            top == network.topic_keywords
            kept == {top[i].key : i \in 1..Len(top)}
        IN  /\ \A i \in 1..Len(top) :
                  /\ top[i].key \in all
                  /\ top[i].n = Weight(top[i].key)
                  /\ \A j \in 1..Len(top) : top[j].key = top[i].key => j = i
            /\ Len(top) = Min(TopicCap, Cardinality(all))
            /\ \A w \in all \ kept : \A i \in 1..Len(top) : Weight(w) <= top[i].n

\* More keywords than the cap, one of them once in a title and once in an
\* abstract with weight 1.3.
C20_Witness ==
    /\ netPc = "done"
    /\ Len(network.topic_keywords) = TopicCap
    /\ LET titles == WordsUpTo("title", Len(net_papers))
           abstracts == WordsUpTo("abstract", Len(net_papers))
       IN  /\ Cardinality({w \in {titles[k] : k \in 1..Len(titles)} :
                               IsKeyword(w)}) > TopicCap
           /\ \E i \in 1..TopicCap :
                  /\ network.topic_keywords[i].n = 13
                  /\ Occurrences(titles, network.topic_keywords[i].key) = 1
                  /\ Occurrences(abstracts, network.topic_keywords[i].key) = 1

-----------------------------------------------------------------------------
(* Properties of the fuzzy same-person check                                 *)

\* The rule as stated, on the space-separated tokens of the two names.
StatedSamePerson(a, b) ==
    LET ta == SplitWs(a, <<>>)
        tb == SplitWs(b, <<>>)
    IN  \/ a = b
        \/ /\ Len(ta) >= 2 /\ Len(tb) >= 2
           /\ ta[Len(ta)] = tb[Len(tb)]
           /\ LET fa == RStripDot(ta[1])
                  fb == RStripDot(tb[1])
              IN  \/ fa = fb
                  \/ Len(fa) = 1 /\ StartsWith(fb, fa)
                  \/ Len(fb) = 1 /\ StartsWith(fa, fb)

\* C21: for every pair of names the check returns the value of the stated
\* rule: true on exact match; otherwise true only when both names have at
\* least 2 tokens, equal last tokens, and first tokens (trailing "." stripped)
\* that are equal or one a single letter that is a prefix of the other.
C21_SamePersonRule ==
    personPc = "done" =>
        sameResult = StatedSamePerson(NameLower(name1), NameLower(name2))


-----------------------------------------------------------------------------
(* Properties of the second-degree expansion                                 *)

SecondDegreeKeys ==
    {exp_network.second_degree[i].key : i \in 1..Len(exp_network.second_degree)}
FirstDegreeNames == {exp_first[i] : i \in 1..Len(exp_first)}

\* C22: after the expansion, whatever the first-degree network (more
\* co-authors than the rank cap included), no name of second_degree or
\* second_degree_rank is a co-author counted on the user's input records;
\* each holds at most 100 entries; second_degree_rank lists exactly the keys
\* of second_degree, in order of non-increasing count.
C22_SecondDegreeExcludesFirst ==
    expPc = "done" =>
        LET sd == exp_network.second_degree
            rank == exp_network.second_degree_rank
        IN  /\ SecondDegreeKeys \cap FirstDegreeNames = {}
            /\ {rank[i] : i \in 1..Len(rank)} \cap FirstDegreeNames = {}
            /\ Len(sd) <= SecondDegreeCap /\ Len(rank) <= SecondDegreeCap
            /\ rank = [i \in 1..Len(sd) |-> sd[i].key]
            /\ \A i \in 1..Len(sd) - 1 : sd[i].n >= sd[i + 1].n

\* C23: between the fetch for one collaborator and the fetch for the next
\* there is a delay of API_DELAY, whether the earlier fetch succeeded or
\* failed; a failed collaborator adds nothing to the counts and the
\* collaborators after it are still fetched.
C23_DelayBetweenCollaborators ==
    /\ \A k \in 1..Len(expTrace) - 1 :
          expTrace[k].type = "fetch" =>
              expTrace[k + 1] = DelayEvent(API_DELAY)
    /\ expPc = "done" =>
          [i \in 1..Len(top_coauthors) |-> FetchEvent(top_coauthors[i])]
              = SelectSeq(expTrace, LAMBDA ev : ev.type = "fetch")

\* C28: after build_profile with expansion, no key of second_degree and no
\* member of second_degree_rank is identified with the researcher's own name
\* by the fuzzy same-person check.
C28_TargetNotSecondDegree ==
    expPc = "done" =>
        \A name \in SecondDegreeKeys
                    \cup {exp_network.second_degree_rank[i] :
                            i \in 1..Len(exp_network.second_degree_rank)} :
            ~_is_same_person(NameLower(exp_user), NameParts(NameLower(exp_user)),
                             NameLower(name), NameParts(NameLower(name)))

-----------------------------------------------------------------------------
(* Properties of the pagination loops                                        *)

\* C24: the pagination loop terminates whatever pages are delivered; the
\* total it works with is the one the first page reported; each request's
\* start offset is the number of entries received before it and is greater
\* than the offset of the request before; and after a delivered page the
\* loop ends exactly when the offset has reached the total (or max_papers,
\* for the author search), when the total is 0, or when the page has no
\* entries.
C24_PaginationTerminates ==
    /\ <>(pgPc # "loop")
    /\ [](pgPages # <<>> => pg_total = ReportedTotal(pgPages[1]))
    /\ [](\A k \in 1..Len(pgRequests) :
             /\ pgRequests[k].start = pgRequests[k].received
             /\ k > 1 => pgRequests[k].start > pgRequests[k - 1].start)
    /\ [][PageDelivered =>
            (pgPc' = "returned" <=>
                \/ pg_start' >= LoopBound(pgLoop, pg_total', pg_max_papers)
                \/ pg_total' = 0
                \/ pgPages'[Len(pgPages')].n = 0)]_vars

\* A loop that took three pages, the later ones reporting another total.
C24_Witness ==
    /\ pgPc = "returned" /\ Len(pgPages) = 3
    /\ pgPages[2].total # pgPages[1].total
    /\ pg_start = pg_total

-----------------------------------------------------------------------------
(* Properties of partial results in daterange mode                           *)

\* C25: when fetch_api_daterange ends on a name-resolution failure after
\* chunk fetches have returned records, the records collected so far, after
\* deduplication and filtering, are part of what fetch_papers returns.
C25_PartialDataSurvives ==
    (/\ fpPc = "returned" /\ mode = "daterange"
     /\ ChunkLog # <<>> /\ _is_dns_error(ChunkLog[Len(ChunkLog)].err)) =>
        LET kept == filter_new_only(deduplicate(PapersOfReturned(ChunkLog)))
        IN  \A i \in 1..Len(kept) :
                \E j \in 1..Len(fpResult) : fpResult[j].arxiv_id = kept[i].arxiv_id

-----------------------------------------------------------------------------
(* Properties of the dates parse_period returns                              *)

\* C26: whenever parse_period returns mode daterange, both dates it returns
\* are eight digits naming a calendar date, which _build_date_chunks accepts;
\* for every input, single-date inputs "YYYY-MM-DD" naming no date included.
C26_DaterangeDatesValid ==
    (ppPc = "done" /\ ppResult.raised = "" /\ ppResult.mode = "daterange") =>
        \A d \in {ppResult.from, ppResult.to} :
            /\ Len(d) = 8 /\ AllDigits(d) /\ ValidYmd(DigitsValue(d))
            /\ _build_date_chunks(DigitsValue(d), DigitsValue(d),
                                  DEFAULT_CHUNK_DAYS).raised = ""

-----------------------------------------------------------------------------
(* Properties of the order of post-processing                                *)

PaperKeys(s) == {DedupKey(s[i]) : i \in 1..Len(s)}

\* C27: with include_replacements false, the papers in fetch_papers' output
\* are those of the filter applied before deduplication: every paper that has
\* a fetched record of an allowed announce type has a record in the output,
\* also when a replacement-typed record of the same paper comes earlier.
C27_FilterDedupCommute ==
    (postPc = "done" /\ ~include_replacements) =>
        /\ PaperKeys(papers) = PaperKeys(deduplicate(filter_new_only(fetched)))
        /\ \A i \in 1..Len(fetched) :
              get_announce_type(fetched[i]) \in AllowedAnnounceTypes =>
                  DedupKey(fetched[i]) \in PaperKeys(papers)

-----------------------------------------------------------------------------
(* Properties of the read-state file                                         *)

StoredDates == {DateNamed(read_state.read_dates[i]) : i \in 1..Len(read_state.read_dates)}

\* C29: after every successful mark_read_days or mark_unread_days call,
\* whatever the file held at first, read_dates is sorted ascending without
\* duplicates and last_read_date is its greatest element, or "" when it is
\* empty; the dates stored are those marked so far (mark_read_days adds the
\* given dates and removes none, mark_unread_days removes the given dates
\* and adds none); and marking the same dates read again changes nothing.
C29_ReadStateInvariant ==
    rsCall.ok =>
        /\ read_state.kind = "dict"
        /\ \A i \in 1..Len(read_state.read_dates) - 1 :
              TextLess(read_state.read_dates[i], read_state.read_dates[i + 1])
        /\ read_state.last_read_date = LastOf(read_state.read_dates)
        /\ \A i \in 1..Len(read_state.read_dates) :
              ~TextLess(read_state.last_read_date, read_state.read_dates[i])
        /\ StoredDates = rsMarked
        /\ rsCall.op = "read" =>
              mark_read_days(read_state, rsCall.dates, pad_year).file = read_state

-----------------------------------------------------------------------------
(* Properties of restore_storage                                             *)

\* The directory a backup's members belong in: the storage root, or for an
\* old-layout backup ~/.claude/arxiv-digest.
ExpectedRoot ==
    IF \E i \in 1..Len(rs_members) : NameStartsWith(rs_members[i], <<ArxivDigest>>)
    THEN rs_root ELSE OldRoot
ExpectedTarget(name) ==
    IF NameStartsWith(name, <<ArxivDigest>>)
    THEN ResolvePath(rs_root, Tail(SplitSlash(name, <<>>)))
    ELSE TargetOf(HomeDir, name)
LeadsInside(name) ==
    /\ SplitSlash(name, <<>>)[1] \in {<<ArxivDigest>>, <<".claude">>}
    /\ InsideDir(ExpectedTarget(name), ExpectedRoot)

\* C30: restore_storage writes nothing outside the storage root (for an
\* old-layout backup, outside ~/.claude/arxiv-digest): either every member
\* leads inside the expected root and is extracted there, or the archive is
\* rejected with nothing written; a member whose name only begins with
\* "arxiv-digest" and leads elsewhere makes the archive rejected.
C30_RestoreStaysInRoot ==
    rsPc = "done" =>
        /\ \A path \in rsWritten : InsideDir(path, ExpectedRoot)
        /\ \/ /\ \A i \in 1..Len(rs_members) : LeadsInside(rs_members[i])
              /\ rsOk
              /\ rsWritten = {ExpectedTarget(rs_members[i]) : i \in 1..Len(rs_members)}
           \/ ~rsOk /\ rsWritten = {}

-----------------------------------------------------------------------------
(* Specifications: one per component, the other components idle.            *)

IdSpecInit ==
    IdInit /\ PostIdle /\ FilterIdle /\ UrlIdle /\ ChunkIdle /\ FetchIdle
    /\ include_replacements = FALSE
    /\ ParseIdle
    /\ BatchIdle
    /\ ListIdle
    /\ NetIdle
    /\ PersonIdle
    /\ ExpandIdle
    /\ PageIdle
    /\ ReadIdle
    /\ RestoreIdle
IdSpecNext == IdNormalize \/ IdNormalizeAgain
IdSpec == IdSpecInit /\ [][IdSpecNext]_vars

PostSpecInit == PostInit /\ IdIdle /\ FilterIdle /\ UrlIdle /\ ChunkIdle /\ FetchIdle
    /\ ParseIdle
    /\ BatchIdle
    /\ ListIdle
    /\ NetIdle
    /\ PersonIdle
    /\ ExpandIdle
    /\ PageIdle
    /\ ReadIdle
    /\ RestoreIdle
PostSpecNext == PostParse \/ PostDeduplicate \/ PostFilter
PostSpec == PostSpecInit /\ [][PostSpecNext]_vars

FilterSpecInit == FilterInit /\ IdIdle /\ PostIdle /\ UrlIdle /\ ChunkIdle /\ FetchIdle
    /\ ParseIdle
    /\ BatchIdle
    /\ ListIdle
    /\ NetIdle
    /\ PersonIdle
    /\ ExpandIdle
    /\ PageIdle
    /\ ReadIdle
    /\ RestoreIdle
FilterSpecNext == FilterApply \/ FilterSkip
FilterSpec == FilterSpecInit /\ [][FilterSpecNext]_vars

UrlSpecInit ==
    UrlInit /\ IdIdle /\ PostIdle /\ FilterIdle /\ ChunkIdle /\ FetchIdle
    /\ include_replacements = FALSE
    /\ ParseIdle
    /\ BatchIdle
    /\ ListIdle
    /\ NetIdle
    /\ PersonIdle
    /\ ExpandIdle
    /\ PageIdle
    /\ ReadIdle
    /\ RestoreIdle
UrlSpecNext == UrlAttemptOk \/ UrlAttemptFail \/ UrlSleep \/ UrlAttemptEscape
UrlSpec == UrlSpecInit /\ [][UrlSpecNext]_vars

ChunkSpecInit ==
    ChunkInit /\ IdIdle /\ PostIdle /\ FilterIdle /\ UrlIdle /\ FetchIdle
    /\ include_replacements = FALSE
    /\ ParseIdle
    /\ BatchIdle
    /\ ListIdle
    /\ NetIdle
    /\ PersonIdle
    /\ ExpandIdle
    /\ PageIdle
    /\ ReadIdle
    /\ RestoreIdle
ChunkSpecNext == ChunkBuild
ChunkSpec == ChunkSpecInit /\ [][ChunkSpecNext]_vars

FetchSpecInit ==
    /\ FetchInit /\ IdIdle /\ PostIdle /\ FilterIdle /\ UrlIdle
    /\ chunkResult = ChunksReturn(<<>>) /\ chunkPc = "idle"
    /\ ParseIdle
    /\ BatchIdle
    /\ ListIdle
    /\ NetIdle
    /\ PersonIdle
    /\ ExpandIdle
    /\ PageIdle
    /\ ReadIdle
    /\ RestoreIdle
FetchSpecNext ==
    \/ FpRss \/ ApiStart \/ ApiChunkOk \/ ApiChunkSkip \/ ApiChunkDns
    \/ FpHtmlFallback \/ FpHtmlPage \/ FpPost
FetchSpec == FetchSpecInit /\ [][FetchSpecNext]_vars

ParseSpecInit ==
    /\ ParseInit /\ IdIdle /\ PostIdle /\ FilterIdle /\ UrlIdle /\ ChunkIdle
    /\ FetchIdle /\ include_replacements = FALSE
    /\ BatchIdle
    /\ ListIdle
    /\ NetIdle
    /\ PersonIdle
    /\ ExpandIdle
    /\ PageIdle
    /\ ReadIdle
    /\ RestoreIdle
ParseSpecNext == ParsePeriod
ParseSpec == ParseSpecInit /\ [][ParseSpecNext]_vars

-----------------------------------------------------------------------------
BatchSpecInit ==
    /\ IdIdle /\ PostIdle /\ FilterIdle /\ UrlIdle /\ ChunkIdle /\ FetchIdle
    /\ ParseIdle /\ include_replacements = FALSE
    /\ BatchInit
    /\ ListIdle
    /\ NetIdle
    /\ PersonIdle
    /\ ExpandIdle
    /\ PageIdle
    /\ ReadIdle
    /\ RestoreIdle
BatchSpecNext ==
    \/ BatchApi
    \/ BatchRss

BatchSpec == BatchSpecInit /\ [][BatchSpecNext]_vars

-----------------------------------------------------------------------------
ListSpecInit ==
    /\ IdIdle /\ PostIdle /\ FilterIdle /\ UrlIdle /\ ChunkIdle /\ FetchIdle
    /\ ParseIdle /\ BatchIdle /\ include_replacements = FALSE
    /\ ListInit
    /\ NetIdle
    /\ PersonIdle
    /\ ExpandIdle
    /\ PageIdle
    /\ ReadIdle
    /\ RestoreIdle
ListSpecNext ==
    \/ handle_starttag
    \/ handle_endtag
    \/ handle_data

ListSpec == ListSpecInit /\ [][ListSpecNext]_vars

-----------------------------------------------------------------------------
NetSpecInit ==
    /\ IdIdle /\ PostIdle /\ FilterIdle /\ UrlIdle /\ ChunkIdle /\ FetchIdle
    /\ ParseIdle /\ BatchIdle /\ ListIdle /\ include_replacements = FALSE
    /\ NetInit
    /\ PersonIdle
    /\ ExpandIdle
    /\ PageIdle
    /\ ReadIdle
    /\ RestoreIdle
NetSpecNext == BuildNetwork

NetSpec == NetSpecInit /\ [][NetSpecNext]_vars

-----------------------------------------------------------------------------
PersonSpecInit ==
    /\ IdIdle /\ PostIdle /\ FilterIdle /\ UrlIdle /\ ChunkIdle /\ FetchIdle
    /\ ParseIdle /\ BatchIdle /\ ListIdle /\ NetIdle
    /\ include_replacements = FALSE
    /\ PersonInit
    /\ ExpandIdle
    /\ PageIdle
    /\ ReadIdle
    /\ RestoreIdle
PersonSpecNext == SamePerson

PersonSpec == PersonSpecInit /\ [][PersonSpecNext]_vars

-----------------------------------------------------------------------------
ExpandSpecInit ==
    /\ IdIdle /\ PostIdle /\ FilterIdle /\ UrlIdle /\ ChunkIdle /\ FetchIdle
    /\ ParseIdle /\ BatchIdle /\ ListIdle /\ NetIdle /\ PersonIdle
    /\ include_replacements = FALSE
    /\ ExpandInit
    /\ PageIdle
    /\ ReadIdle
    /\ RestoreIdle
ExpandSpecNext ==
    \/ ExpandStart
    \/ ExpandFetched
    \/ ExpandFailed
    \/ ExpandFinish

ExpandSpec == ExpandSpecInit /\ [][ExpandSpecNext]_vars

-----------------------------------------------------------------------------
PageSpecInit ==
    /\ IdIdle /\ PostIdle /\ FilterIdle /\ UrlIdle /\ ChunkIdle /\ FetchIdle
    /\ ParseIdle /\ BatchIdle /\ ListIdle /\ NetIdle /\ PersonIdle /\ ExpandIdle
    /\ include_replacements = FALSE
    /\ PageInit
    /\ ReadIdle
    /\ RestoreIdle
PageSpecNext ==
    \/ PageDelivered
    \/ PageFailed

\* The loop runs in one thread and every request has a timeout: a pending
\* iteration is eventually carried out.
PageSpec == PageSpecInit /\ [][PageSpecNext]_vars /\ WF_vars(PageSpecNext)

-----------------------------------------------------------------------------
ReadSpecInit ==
    /\ IdIdle /\ PostIdle /\ FilterIdle /\ UrlIdle /\ ChunkIdle /\ FetchIdle
    /\ ParseIdle /\ BatchIdle /\ ListIdle /\ NetIdle /\ PersonIdle /\ ExpandIdle
    /\ PageIdle
    /\ include_replacements = FALSE
    /\ ReadInit
    /\ RestoreIdle
ReadSpecNext ==
    \/ MarkRead
    \/ MarkUnread

ReadSpec == ReadSpecInit /\ [][ReadSpecNext]_vars

-----------------------------------------------------------------------------
RestoreSpecInit ==
    /\ IdIdle /\ PostIdle /\ FilterIdle /\ UrlIdle /\ ChunkIdle /\ FetchIdle
    /\ ParseIdle /\ BatchIdle /\ ListIdle /\ NetIdle /\ PersonIdle /\ ExpandIdle
    /\ PageIdle /\ ReadIdle
    /\ include_replacements = FALSE
    /\ RestoreInit

RestoreSpecNext == Restore

RestoreSpec == RestoreSpecInit /\ [][RestoreSpecNext]_vars

====
